---- MODULE Spec2Model ----
(***************************************************************************)
(* FireHydrant integration of superplane: the webhook signature verifier,  *)
(* the subscription reconciler (CompareConfig / Merge) and the OnIncident  *)
(* delivery handler.                                                       *)
(*                                                                         *)
(* Go strings and []byte are sequences of byte values (0..255).  A Go      *)
(* error is the string of its message, "nil" for no error.                 *)
(***************************************************************************)
EXTENDS Integers, Sequences, FiniteSets, TLC

VARIABLES
    secret,         \* the webhook's stored secret (ctx.Webhook.GetSecret)
    configuration,  \* the subscriber's raw trigger configuration (ctx.Configuration)
    request,        \* the delivery last handled by HandleWebhook
    status,         \* HTTP status HandleWebhook returned for it
    err,            \* error HandleWebhook returned for it
    events,         \* events ctx.Events.Emit accepted while handling it
    call,           \* inputs and result of a direct call of a pure function
    upstream,       \* the provider's webhooks, as ListWebhooks returns them
    setups,         \* the Setup executions, one record per executor
    log,            \* the successful writes to upstream, oldest first
    registry        \* the host's webhook records and the requests they serve

vars == <<secret, configuration, request, status, err, events, call,
          upstream, setups, log, registry>>

\* the state of the registration side
regVars == <<upstream, setups, log, registry>>

(***************************************************************************)
(* Bounds of the model.                                                    *)
(***************************************************************************)
\* longest webhook secret, in bytes
MaxSecretLen == 1
\* hex characters of a digest (64 for SHA-256)
DigestHexLen == 8
\* longest list of subscriptions in a webhook configuration
MaxSubs == 2

(***************************************************************************)
(* Bytes.                                                                  *)
(***************************************************************************)
RECURSIVE BitXor(_, _)
\* a ^ b on bytes
BitXor(a, b) ==
    IF a = 0 THEN b
    ELSE IF b = 0 THEN a
    ELSE (((a % 2) + (b % 2)) % 2) + 2 * BitXor(a \div 2, b \div 2)

RECURSIVE BitOr(_, _)
\* a | b on bytes
BitOr(a, b) ==
    IF a = 0 THEN b
    ELSE IF b = 0 THEN a
    ELSE (IF (a % 2) = 1 \/ (b % 2) = 1 THEN 1 ELSE 0) + 2 * BitOr(a \div 2, b \div 2)

\* all sequences over S of length at most n
SeqsUpTo(S, n) == UNION {[1..k -> S] : k \in 0..n}

\* the bytes a delivery body is spelled with (see jsonUnmarshal)
WireBytes == 0..4

\* the bytes a secret is spelled with
SecretBytes == {1, 2}

\* the fields of a delivery body, in wire order (see jsonUnmarshal)
WireFields == <<"resource_type", "operation", "incident", "severity",
                "current_milestone", "milestones", "priority">>

RECURSIVE SeqNum(_)
\* the position of a byte string over WireBytes among all such strings
\* (bijective numeration), the digest's input
SeqNum(s) ==
    IF s = <<>> THEN 0
    ELSE (SeqNum(SubSeq(s, 1, Len(s) - 1)) * Cardinality(WireBytes)) + s[Len(s)] + 1

RECURSIVE Pow(_, _)
Pow(b, n) == IF n = 0 THEN 1 ELSE b * Pow(b, n - 1)

\* fmt.Sprintf("%x"): one lowercase hex digit, as its ASCII byte
HexChar(d) == IF d < 10 THEN 48 + d ELSE 87 + d

RECURSIVE HexString(_, _)
\* fmt.Sprintf("%x", digest): n as k lowercase hex digits
HexString(n, k) ==
    IF k = 0 THEN <<>> ELSE HexString(n \div 16, k - 1) \o <<HexChar((n % 16))>>

(***************************************************************************)
(* Signature verifier.                                                     *)
(***************************************************************************)
\* The digest under hmac.New(sha256.New, key) of data.  SHA-256 itself is
\* not computed: the digest is a keyed injective function of (key, data),
\* which is HMAC-SHA256 without its collisions, cut to DigestHexLen hex
\* characters.
Digest(key, data) ==
    (((SeqNum(key) * Pow(Cardinality(WireBytes), Len(WireFields) + 1)) + SeqNum(data)) * 97) + 10

\* computeHMACSHA256 computes HMAC-SHA256 and returns hex-encoded result
computeHMACSHA256(key, data) == HexString(Digest(key, data), DigestHexLen)

RECURSIVE hmacEqualLoop(_, _, _, _)
\* for i := 0; i < len(a); i++ { result |= a[i] ^ b[i] }
hmacEqualLoop(a, b, i, result) ==
    IF i > Len(a) THEN result
    ELSE hmacEqualLoop(a, b, i + 1, BitOr(result, BitXor(a[i], b[i])))

\* faulty variant: the length check is dropped and the shorter length is compared
hmacEqual_prefix(a, b) ==
    LET n == IF Len(a) < Len(b) THEN Len(a) ELSE Len(b)
    IN  hmacEqualLoop(SubSeq(a, 1, n), SubSeq(b, 1, n), 1, 0) = 0

\* hmacEqual compares two HMAC values in constant time
hmacEqual(a, b) ==
    IF Len(a) # Len(b) THEN FALSE ELSE hmacEqualLoop(a, b, 1, 0) = 0

\* faulty variant: an absent signature is reported as a mismatch
verifyWebhookSignature_nomissing(signature, body, key) ==
    IF Len(key) = 0 THEN "nil"
    ELSE IF ~hmacEqual(signature, computeHMACSHA256(key, body)) THEN "signature mismatch"
    ELSE "nil"

\* faulty variant: an empty secret is used as the key instead of skipping verification
verifyWebhookSignature_noskip(signature, body, key) ==
    IF signature = <<>> THEN "missing signature"
    ELSE IF ~hmacEqual(signature, computeHMACSHA256(key, body)) THEN "signature mismatch"
    ELSE "nil"

\* faulty variant: the comparison is inverted
verifyWebhookSignature_inverted(signature, body, key) ==
    IF Len(key) = 0 THEN "nil"
    ELSE IF signature = <<>> THEN "missing signature"
    ELSE IF hmacEqual(signature, computeHMACSHA256(key, body)) THEN "signature mismatch"
    ELSE "nil"

\* verifyWebhookSignature verifies the FireHydrant webhook HMAC-SHA256 signature
\* (key is the secret; the error's message, "nil" for none)
verifyWebhookSignature(signature, body, key) ==
    IF Len(key) = 0 THEN "nil"
    ELSE IF signature = <<>> THEN "missing signature"
    ELSE IF ~hmacEqual(signature, computeHMACSHA256(key, body)) THEN "signature mismatch"
    ELSE "nil"

(***************************************************************************)
(* Inputs of the verifier.                                                 *)
(***************************************************************************)
Secrets == SeqsUpTo(SecretBytes, MaxSecretLen)

\* s with the byte at position i replaced by c
ReplaceAt(s, i, c) == [j \in 1..Len(s) |-> IF j = i THEN c ELSE s[j]]

\* s with its hex letters in upper case
UpperHex(s) == [j \in 1..Len(s) |-> IF s[j] \in 97..102 THEN s[j] - 32 ELSE s[j]]

\* raw bodies the verifier is called on: it never parses them
VerifyBodies == SeqsUpTo({0, 3}, 2)

\* what a sender may put in the fh-signature header of a delivery of body to a
\* webhook with secret key: nothing, the right signature, and near misses of it
SignaturesFor(key, body, bodies) ==
    LET good == computeHMACSHA256(key, body)
    IN  {<<>>, good, SubSeq(good, 1, Len(good) - 1), good \o <<48>>, UpperHex(good)}
        \cup {ReplaceAt(good, i, c) : i \in 1..Len(good), c \in {48, 102, 103}}
        \cup {computeHMACSHA256(k, body) : k \in Secrets}
        \cup {computeHMACSHA256(key, d) : d \in bodies}

Pending == "pending"

NoCall == [fn |-> "none"]

NoRequest == [signature |-> <<>>, body |-> <<>>, fault |-> "none", handled |-> FALSE]

\* the executors of Setup
Procs == {1, 2}

\* an executor that has not run Setup
NoSetup ==
    [pc |-> "idle", requested |-> <<>>, key |-> <<>>, listed |-> FALSE, found |-> 0,
     foundSubs |-> <<>>, merged |-> <<>>, seen |-> 0, calls |-> <<>>,
     metadata |-> 0, err |-> "nil", runs |-> 0]

\* the state of a webhook no delivery has reached yet, with nothing registered
Idle ==
    /\ request = NoRequest
    /\ status = 0
    /\ err = "nil"
    /\ events = <<>>
    /\ upstream = <<>>
    /\ setups = [p \in Procs |-> NoSetup]
    /\ log = <<>>
    /\ registry = <<>>

(***************************************************************************)
(* SpecVerify: verifyWebhookSignature called directly.                     *)
(***************************************************************************)
InitVerify ==
    /\ secret = <<>>
    /\ configuration = [kind |-> "nil", severities |-> <<>>, current_milestone |-> <<>>]
    /\ Idle
    /\ \E key \in Secrets, body \in VerifyBodies :
         \E signature \in SignaturesFor(key, body, VerifyBodies) :
            call = [fn |-> "verifyWebhookSignature", signature |-> signature,
                    body |-> body, secret |-> key, result |-> Pending]

Verify ==
    /\ call.fn = "verifyWebhookSignature"
    /\ call.result = Pending
    /\ call' = [call EXCEPT !.result = verifyWebhookSignature(call.signature, call.body, call.secret)]
    /\ UNCHANGED <<secret, configuration, request, status, err, events>>
    /\ UNCHANGED regVars

NextVerify == Verify

SpecVerify == InitVerify /\ [][NextVerify]_vars

\* a finished direct call of the verifier
Verified == call.fn = "verifyWebhookSignature" /\ call.result # Pending

(***************************************************************************)
(* Loosely typed values (Go's any, as encoding/json decodes them) and      *)
(* maps, as sets of <<key, value>> pairs.                                  *)
(***************************************************************************)
\* a JSON string
Str(x) == [type |-> "string", str |-> x, obj |-> {}, len |-> 0]

\* a JSON object whose members are strings: map[string]any
Obj(pairs) == [type |-> "object", str |-> "", obj |-> pairs, len |-> 0]

\* a JSON array of n entries: []any
List(n) == [type |-> "list", str |-> "", obj |-> {}, len |-> n]

\* _, ok := m[k]
Has(m, k) == \E p \in m : p[1] = k

\* m[k] of a key that is there
Get(m, k) == (CHOOSE p \in m : p[1] = k)[2]

\* m[k] = v
Put(m, k, v) == {p \in m : p[1] # k} \cup {<<k, v>>}

(***************************************************************************)
(* The delivery body.  The bytes of a body spell one code per field of     *)
(* WireFields; jsonUnmarshal is the decoder of that format, standing for   *)
(* json.Unmarshal into WebhookPayload.                                     *)
(***************************************************************************)
ResourceTypeOf == <<"", "incident", "change_event">>

OperationOf == <<"", "CREATED", "UPDATED", "DELETED">>

\* "severity": absent, {slug: SEV1}, {slug: SEV2}, "SEV1", {name: SEV1}
SeverityOf ==
    <<{}, {<<"severity", Obj({<<"slug", "SEV1">>})>>},
          {<<"severity", Obj({<<"slug", "SEV2">>})>>},
          {<<"severity", Str("SEV1")>>},
          {<<"severity", Obj({<<"name", "SEV1">>})>>}>>

\* "current_milestone": absent, "", "started", "resolved", {slug: resolved}
MilestoneOf ==
    <<{}, {<<"current_milestone", Str("")>>},
          {<<"current_milestone", Str("started")>>},
          {<<"current_milestone", Str("resolved")>>},
          {<<"current_milestone", Obj({<<"slug", "resolved">>})>>}>>

\* "milestones": absent, [], [m], [m, m]
HistoryOf ==
    <<{}, {<<"milestones", List(0)>>}, {<<"milestones", List(1)>>},
          {<<"milestones", List(2)>>}>>

\* "priority": absent, {slug: P1}, "P1", {name: P1}
PriorityOf ==
    <<{}, {<<"priority", Obj({<<"slug", "P1">>})>>},
          {<<"priority", Str("P1")>>},
          {<<"priority", Obj({<<"name", "P1">>})>>}>>

\* the bytes spell a document: one code per field, each in its range, and no
\* incident field without an incident
WellFormed(body) ==
    /\ Len(body) = Len(WireFields)
    /\ body[1] < Len(ResourceTypeOf)
    /\ body[2] < Len(OperationOf)
    /\ body[3] \in {0, 1}
    /\ body[4] < Len(SeverityOf)
    /\ body[5] < Len(MilestoneOf)
    /\ body[6] < Len(HistoryOf)
    /\ body[7] < Len(PriorityOf)
    /\ body[3] = 0 => \A i \in 4..7 : body[i] = 0

\* json.Unmarshal(ctx.Body, &payload): WebhookPayload, or an error
jsonUnmarshal(body) ==
    IF ~WellFormed(body)
    THEN [err |-> "invalid JSON", Event |-> [Operation |-> "", ResourceType |-> ""],
          Data |-> [Incident |-> [nil |-> TRUE, map |-> {}]]]
    ELSE [err |-> "nil",
          Event |-> [Operation |-> OperationOf[body[2] + 1],
                     ResourceType |-> ResourceTypeOf[body[1] + 1]],
          Data |-> [Incident |->
              IF body[3] = 0 THEN [nil |-> TRUE, map |-> {}]
              ELSE [nil |-> FALSE,
                    map |-> {<<"id", Str("inc-1")>>}
                            \cup SeverityOf[body[4] + 1] \cup MilestoneOf[body[5] + 1]
                            \cup HistoryOf[body[6] + 1] \cup PriorityOf[body[7] + 1]]]]

(***************************************************************************)
(* The trigger's configuration.                                            *)
(***************************************************************************)
\* mapstructure.Decode(ctx.Configuration, &config): OnIncidentConfiguration, or
\* an error for a value that is no map of the two lists
decodeOnIncidentConfiguration(raw) ==
    IF raw.kind = "invalid"
    THEN [err |-> "expected a map", Severities |-> <<>>, CurrentMilestone |-> <<>>]
    ELSE [err |-> "nil", Severities |-> raw.severities,
          CurrentMilestone |-> raw.current_milestone]

\* faulty variant: every value is found
Contains_always(list, x) == TRUE

\* slices.Contains
Contains(list, x) == \E i \in 1..Len(list) : list[i] = x

\* faulty variant: every record has the slug SEV1
extractSeveritySlug_const(payload) == "SEV1"

\* extractSeveritySlug: the slug of a nested severity object, "" otherwise
extractSeveritySlug(payload) ==
    IF payload.Data.Incident.nil THEN ""
    ELSE IF ~Has(payload.Data.Incident.map, "severity") THEN ""
    ELSE LET severity == Get(payload.Data.Incident.map, "severity")
         IN  IF severity.type # "object" THEN ""
             ELSE IF ~Has(severity.obj, "slug") THEN ""
             ELSE Get(severity.obj, "slug")

\* one field of normalizeIncident: a nested object with a slug becomes the slug
normalizeField(raw, normalized, field) ==
    IF /\ Has(raw, field)
       /\ Get(raw, field).type = "object"
       /\ Has(Get(raw, field).obj, "slug")
    THEN Put(normalized, field, Str(Get(Get(raw, field).obj, "slug")))
    ELSE normalized

\* faulty variant: the slug is written into raw as well
setSlug_inplace(m, field) ==
    [raw |-> normalizeField(m.raw, m.raw, field),
     normalized |-> normalizeField(m.raw, m.normalized, field)]

\* normalized[field] = slug, on the two maps normalizeIncident works with
setSlug(m, field) == [m EXCEPT !.normalized = normalizeField(m.raw, @, field)]

\* normalizeIncident, on its two maps: normalized starts as maps.Copy of raw,
\* then takes the slug of severity and of priority
normalizeMaps(raw) ==
    setSlug(setSlug([raw |-> raw, normalized |-> raw], "severity"), "priority")

\* normalizeIncident: a copy of raw with severity and priority flattened
normalizeIncident(raw) == normalizeMaps(raw).normalized

\* faulty variant: the event is incident.created whatever the operation
buildIncidentPayload_created(payload) ==
    [event |-> "incident.created",
     operation |-> payload.Event.Operation,
     resource_type |-> payload.Event.ResourceType,
     incident |-> IF payload.Data.Incident.nil THEN [present |-> FALSE, map |-> {}]
                  ELSE [present |-> TRUE,
                        map |-> normalizeIncident(payload.Data.Incident.map)]]

\* the caller's payload once buildIncidentPayload has returned
payloadAfterBuild(payload) ==
    IF payload.Data.Incident.nil THEN payload
    ELSE [payload EXCEPT !.Data.Incident.map = normalizeMaps(@).raw]

\* buildIncidentPayload
buildIncidentPayload(payload) ==
    [event |-> IF payload.Event.Operation = "UPDATED" THEN "incident.updated"
               ELSE "incident.created",
     operation |-> payload.Event.Operation,
     resource_type |-> payload.Event.ResourceType,
     incident |-> IF payload.Data.Incident.nil THEN [present |-> FALSE, map |-> {}]
                  ELSE [present |-> TRUE,
                        map |-> normalizeIncident(payload.Data.Incident.map)]]

(***************************************************************************)
(* OnIncident.HandleWebhook.                                               *)
(***************************************************************************)
StatusOK == 200

StatusBadRequest == 400

StatusForbidden == 403

StatusInternalServerError == 500

Reply(code, error, emitted) == [status |-> code, err |-> error, events |-> emitted]

\* faulty variant: the resource type is not looked at
filterAndEmit_anytype(config, payload, fault) ==
    LET op == payload.Event.Operation
        incidentSeverity == extractSeveritySlug(payload)
        emitType == IF op = "UPDATED" THEN "firehydrant.incident.updated"
                    ELSE "firehydrant.incident.created"
    IN  IF op # "CREATED" /\ op # "UPDATED" THEN Reply(StatusOK, "nil", <<>>)
        ELSE IF ~Contains(config.CurrentMilestone, "started")
             THEN Reply(StatusOK, "nil", <<>>)
        ELSE IF /\ Len(config.Severities) > 0
                /\ \/ incidentSeverity = ""
                   \/ ~Contains(config.Severities, incidentSeverity)
             THEN Reply(StatusOK, "nil", <<>>)
        ELSE IF fault = "emit"
             THEN Reply(StatusInternalServerError, "error emitting event", <<>>)
        ELSE Reply(StatusOK, "nil",
                   <<[type |-> emitType, payload |-> buildIncidentPayload(payload)]>>)

\* faulty variant: a CREATED delivery is matched on the record's current
\* milestone, as an UPDATED one is
filterAndEmit_recordmilestone(config, payload, fault) ==
    LET op == payload.Event.Operation
        incident == payload.Data.Incident.map
        milestone == IF Has(incident, "current_milestone")
                     THEN Get(incident, "current_milestone") ELSE List(0)
        incidentSeverity == extractSeveritySlug(payload)
        emitType == IF op = "UPDATED" THEN "firehydrant.incident.updated"
                    ELSE "firehydrant.incident.created"
    IN  IF payload.Event.ResourceType # "incident" THEN Reply(StatusOK, "nil", <<>>)
        ELSE IF op # "CREATED" /\ op # "UPDATED" THEN Reply(StatusOK, "nil", <<>>)
        ELSE IF \/ milestone.type # "string"
                \/ milestone.str = ""
                \/ ~Contains(config.CurrentMilestone, milestone.str)
             THEN Reply(StatusOK, "nil", <<>>)
        ELSE IF /\ Len(config.Severities) > 0
                /\ \/ incidentSeverity = ""
                   \/ ~Contains(config.Severities, incidentSeverity)
             THEN Reply(StatusOK, "nil", <<>>)
        ELSE IF fault = "emit"
             THEN Reply(StatusInternalServerError, "error emitting event", <<>>)
        ELSE Reply(StatusOK, "nil",
                   <<[type |-> emitType, payload |-> buildIncidentPayload(payload)]>>)

\* faulty variant: the length of the milestone history is not looked at
filterAndEmit_nobootstrap(config, payload, fault) ==
    LET op == payload.Event.Operation
        incident == payload.Data.Incident.map
        milestone == IF Has(incident, "current_milestone")
                     THEN Get(incident, "current_milestone") ELSE List(0)
        incidentSeverity == extractSeveritySlug(payload)
        emitType == IF op = "UPDATED" THEN "firehydrant.incident.updated"
                    ELSE "firehydrant.incident.created"
    IN  IF payload.Event.ResourceType # "incident" THEN Reply(StatusOK, "nil", <<>>)
        ELSE IF op # "CREATED" /\ op # "UPDATED" THEN Reply(StatusOK, "nil", <<>>)
        ELSE IF op = "CREATED" /\ ~Contains(config.CurrentMilestone, "started")
             THEN Reply(StatusOK, "nil", <<>>)
        ELSE IF /\ op = "UPDATED"
                /\ \/ milestone.type # "string"
                   \/ milestone.str = ""
                   \/ ~Contains(config.CurrentMilestone, milestone.str)
             THEN Reply(StatusOK, "nil", <<>>)
        ELSE IF /\ Len(config.Severities) > 0
                /\ \/ incidentSeverity = ""
                   \/ ~Contains(config.Severities, incidentSeverity)
             THEN Reply(StatusOK, "nil", <<>>)
        ELSE IF fault = "emit"
             THEN Reply(StatusInternalServerError, "error emitting event", <<>>)
        ELSE Reply(StatusOK, "nil",
                   <<[type |-> emitType, payload |-> buildIncidentPayload(payload)]>>)

\* faulty variant: a severity outside the allow-list is answered as a bad request
filterAndEmit_severity400(config, payload, fault) ==
    LET op == payload.Event.Operation
        incident == payload.Data.Incident.map
        history == IF Has(incident, "milestones") THEN Get(incident, "milestones") ELSE Str("")
        milestone == IF Has(incident, "current_milestone")
                     THEN Get(incident, "current_milestone") ELSE List(0)
        incidentSeverity == extractSeveritySlug(payload)
        emitType == IF op = "UPDATED" THEN "firehydrant.incident.updated"
                    ELSE "firehydrant.incident.created"
    IN  IF payload.Event.ResourceType # "incident" THEN Reply(StatusOK, "nil", <<>>)
        ELSE IF op # "CREATED" /\ op # "UPDATED" THEN Reply(StatusOK, "nil", <<>>)
        ELSE IF op = "CREATED" /\ ~Contains(config.CurrentMilestone, "started")
             THEN Reply(StatusOK, "nil", <<>>)
        ELSE IF op = "UPDATED" /\ history.type = "list" /\ history.len = 1
             THEN Reply(StatusOK, "nil", <<>>)
        ELSE IF /\ op = "UPDATED"
                /\ \/ milestone.type # "string"
                   \/ milestone.str = ""
                   \/ ~Contains(config.CurrentMilestone, milestone.str)
             THEN Reply(StatusOK, "nil", <<>>)
        ELSE IF /\ Len(config.Severities) > 0
                /\ \/ incidentSeverity = ""
                   \/ ~Contains(config.Severities, incidentSeverity)
             THEN Reply(StatusBadRequest, "severity not allowed", <<>>)
        ELSE IF fault = "emit"
             THEN Reply(StatusInternalServerError, "error emitting event", <<>>)
        ELSE Reply(StatusOK, "nil",
                   <<[type |-> emitType, payload |-> buildIncidentPayload(payload)]>>)

\* the filter and the emit of HandleWebhook, once the body is parsed
filterAndEmit(config, payload, fault) ==
    LET op == payload.Event.Operation
        incident == payload.Data.Incident.map
        history == IF Has(incident, "milestones") THEN Get(incident, "milestones") ELSE Str("")
        milestone == IF Has(incident, "current_milestone")
                     THEN Get(incident, "current_milestone") ELSE List(0)
        incidentSeverity == extractSeveritySlug(payload)
        emitType == IF op = "UPDATED" THEN "firehydrant.incident.updated"
                    ELSE "firehydrant.incident.created"
    IN  IF payload.Event.ResourceType # "incident" THEN Reply(StatusOK, "nil", <<>>)
        ELSE IF op # "CREATED" /\ op # "UPDATED" THEN Reply(StatusOK, "nil", <<>>)
        ELSE IF op = "CREATED" /\ ~Contains(config.CurrentMilestone, "started")
             THEN Reply(StatusOK, "nil", <<>>)
        ELSE IF op = "UPDATED" /\ history.type = "list" /\ history.len = 1
             THEN Reply(StatusOK, "nil", <<>>)
        ELSE IF /\ op = "UPDATED"
                /\ \/ milestone.type # "string"
                   \/ milestone.str = ""
                   \/ ~Contains(config.CurrentMilestone, milestone.str)
             THEN Reply(StatusOK, "nil", <<>>)
        ELSE IF /\ Len(config.Severities) > 0
                /\ \/ incidentSeverity = ""
                   \/ ~Contains(config.Severities, incidentSeverity)
             THEN Reply(StatusOK, "nil", <<>>)
        ELSE IF fault = "emit"
             THEN Reply(StatusInternalServerError, "error emitting event", <<>>)
        ELSE Reply(StatusOK, "nil",
                   <<[type |-> emitType, payload |-> buildIncidentPayload(payload)]>>)

\* faulty variant: the signature is not verified
handleWebhook_noverify(rawConfig, key, req) ==
    LET config == decodeOnIncidentConfiguration(rawConfig)
        payload == jsonUnmarshal(req.body)
    IN  IF rawConfig.kind # "nil" /\ config.err # "nil"
        THEN Reply(StatusInternalServerError, "failed to decode configuration", <<>>)
        ELSE IF req.fault = "getSecret"
        THEN Reply(StatusInternalServerError, "error getting secret", <<>>)
        ELSE IF payload.err # "nil"
        THEN Reply(StatusBadRequest, "error parsing request body", <<>>)
        ELSE filterAndEmit(config, payload, req.fault)

\* faulty variant: a body that does not parse goes on to the filter
handleWebhook_noparse(rawConfig, key, req) ==
    LET config == decodeOnIncidentConfiguration(rawConfig)
        verified == verifyWebhookSignature(req.signature, req.body, key)
        payload == jsonUnmarshal(req.body)
    IN  IF rawConfig.kind # "nil" /\ config.err # "nil"
        THEN Reply(StatusInternalServerError, "failed to decode configuration", <<>>)
        ELSE IF req.fault = "getSecret"
        THEN Reply(StatusInternalServerError, "error getting secret", <<>>)
        ELSE IF verified # "nil"
        THEN Reply(StatusForbidden, "invalid signature", <<>>)
        ELSE filterAndEmit(config, payload, req.fault)

\* faulty variant: the body is parsed before the signature is verified
handleWebhook_parsefirst(rawConfig, key, req) ==
    LET config == decodeOnIncidentConfiguration(rawConfig)
        verified == verifyWebhookSignature(req.signature, req.body, key)
        payload == jsonUnmarshal(req.body)
    IN  IF rawConfig.kind # "nil" /\ config.err # "nil"
        THEN Reply(StatusInternalServerError, "failed to decode configuration", <<>>)
        ELSE IF req.fault = "getSecret"
        THEN Reply(StatusInternalServerError, "error getting secret", <<>>)
        ELSE IF payload.err # "nil"
        THEN Reply(StatusBadRequest, "error parsing request body", <<>>)
        ELSE IF verified # "nil"
        THEN Reply(StatusForbidden, "invalid signature", <<>>)
        ELSE filterAndEmit(config, payload, req.fault)

\* HandleWebhook(ctx): the status, the error and the events emitted, for the
\* raw configuration, the stored secret and a delivery
handleWebhook(rawConfig, key, req) ==
    LET config == decodeOnIncidentConfiguration(rawConfig)
        verified == verifyWebhookSignature(req.signature, req.body, key)
        payload == jsonUnmarshal(req.body)
    IN  IF rawConfig.kind # "nil" /\ config.err # "nil"
        THEN Reply(StatusInternalServerError, "failed to decode configuration", <<>>)
        ELSE IF req.fault = "getSecret"
        THEN Reply(StatusInternalServerError, "error getting secret", <<>>)
        ELSE IF verified # "nil"
        THEN Reply(StatusForbidden, "invalid signature", <<>>)
        ELSE IF payload.err # "nil"
        THEN Reply(StatusBadRequest, "error parsing request body", <<>>)
        ELSE filterAndEmit(config, payload, req.fault)

(***************************************************************************)
(* Inputs of the delivery handler.                                         *)
(***************************************************************************)
\* raw trigger configurations: none, no map, and maps of the two allow-lists
Configurations ==
    {[kind |-> "nil", severities |-> <<>>, current_milestone |-> <<>>],
     [kind |-> "invalid", severities |-> <<>>, current_milestone |-> <<>>]}
    \cup [kind : {"map"},
          severities : {<<>>, <<"SEV1">>},
          current_milestone : {<<>>, <<"started">>, <<"resolved">>,
                               <<"started", "resolved">>}]

\* delivery bodies: two that are no document; every event header without an
\* incident; incident CREATED and UPDATED deliveries over every severity,
\* current milestone and milestone history, and over every priority
Bodies ==
    {<<>>, <<1, 1>>}
    \cup {<<rt, op, 0, 0, 0, 0, 0>> : rt \in 0..2, op \in 0..3}
    \cup {<<rt, op, 1, 1, 2, 0, 0>> : rt \in 1..2, op \in 1..3}
    \cup {<<1, op, 1, sev, ms, hist, 0>> :
            op \in 1..2, sev \in 0..4, ms \in 0..4, hist \in 0..3}
    \cup {<<1, op, 1, sev, 2, 2, prio>> : op \in 1..2, sev \in {0, 1}, prio \in 1..3}

\* what a sender may put in the fh-signature header of a delivery to a webhook
\* with secret key: nothing, the right signature, the right one cut short or
\* with a byte changed, and the signature under another secret
DeliverySignatures(key, body) ==
    LET good == computeHMACSHA256(key, body)
        other == IF key = <<1>> THEN <<2>> ELSE <<1>>
    IN  {<<>>, good, SubSeq(good, 1, Len(good) - 1), ReplaceAt(good, 1, 103),
         computeHMACSHA256(other, body)}

\* failures of the collaborators: ctx.Webhook.GetSecret, ctx.Events.Emit
Faults == {"none", "getSecret", "emit"}

(***************************************************************************)
(* Spec: deliveries handled one after the other.                           *)
(***************************************************************************)
Init ==
    /\ secret \in Secrets
    /\ configuration \in Configurations
    /\ Idle
    /\ call = NoCall

\* faulty variant: handling a delivery clears the stored secret
HandleWebhook_clearing ==
    /\ ~request.handled
    /\ \E body \in Bodies, fault \in Faults :
         \E signature \in DeliverySignatures(secret, body) :
            LET req == [signature |-> signature, body |-> body, fault |-> fault,
                        handled |-> TRUE]
                reply == handleWebhook(configuration, secret, req)
            IN  /\ request' = req
                /\ status' = reply.status
                /\ err' = reply.err
                /\ events' = reply.events
    /\ secret' = <<>>
    /\ UNCHANGED <<configuration, call>>
    /\ UNCHANGED regVars

\* a delivery arrives and HandleWebhook runs on it
HandleWebhook ==
    /\ ~request.handled
    /\ \E body \in Bodies, fault \in Faults :
         \E signature \in DeliverySignatures(secret, body) :
            LET req == [signature |-> signature, body |-> body, fault |-> fault,
                        handled |-> TRUE]
                reply == handleWebhook(configuration, secret, req)
            IN  /\ request' = req
                /\ status' = reply.status
                /\ err' = reply.err
                /\ events' = reply.events
    /\ UNCHANGED <<secret, configuration, call>>
    /\ UNCHANGED regVars

\* the response is sent; the next delivery can arrive
Respond ==
    /\ request.handled
    /\ request' = NoRequest
    /\ status' = 0
    /\ err' = "nil"
    /\ events' = <<>>
    /\ UNCHANGED <<secret, configuration, call>>
    /\ UNCHANGED regVars

Next == HandleWebhook \/ Respond

Spec == Init /\ [][Next]_vars

(***************************************************************************)
(* SpecPayload: buildIncidentPayload called directly on a parsed payload.  *)
(***************************************************************************)
\* the payloads of the bodies that parse
Payloads == {jsonUnmarshal(body) : body \in {b \in Bodies : WellFormed(b)}}

InitPayload ==
    /\ secret = <<>>
    /\ configuration = [kind |-> "nil", severities |-> <<>>, current_milestone |-> <<>>]
    /\ Idle
    /\ call \in [fn : {"buildIncidentPayload"}, payload : Payloads, done : {FALSE},
                 result : {buildIncidentPayload(jsonUnmarshal(<<0, 0, 0, 0, 0, 0, 0>>))},
                 after : {jsonUnmarshal(<<0, 0, 0, 0, 0, 0, 0>>)}]

BuildIncidentPayload ==
    /\ call.fn = "buildIncidentPayload"
    /\ ~call.done
    /\ call' = [call EXCEPT !.done = TRUE,
                            !.result = buildIncidentPayload(call.payload),
                            !.after = payloadAfterBuild(call.payload)]
    /\ UNCHANGED <<secret, configuration, request, status, err, events>>
    /\ UNCHANGED regVars

NextPayload == BuildIncidentPayload

SpecPayload == InitPayload /\ [][NextPayload]_vars

(***************************************************************************)
(* Subscription reconciler: FireHydrantWebhookHandler.CompareConfig and    *)
(* Merge.  A raw configuration (any) is a map with a list of               *)
(* subscriptions, or a value that is no map.                               *)
(***************************************************************************)
\* faulty variant: a value that is no map decodes to an empty configuration
decodeWebhookConfiguration_lenient(raw) ==
    [err |-> "nil", Subscriptions |-> raw.subscriptions]

\* mapstructure.Decode(a, &config): WebhookConfiguration, or an error
decodeWebhookConfiguration(raw) ==
    IF raw.kind = "map" \/ raw.kind = "WebhookConfiguration"
    THEN [err |-> "nil", Subscriptions |-> raw.subscriptions]
    ELSE [err |-> "expected a map", Subscriptions |-> <<>>]

RECURSIVE subsetLoop(_, _, _)
\* for _, x := range a { if !slices.Contains(b, x) { return false } }
subsetLoop(a, b, i) ==
    IF i > Len(a) THEN TRUE
    ELSE IF ~Contains(b, a[i]) THEN FALSE
    ELSE subsetLoop(a, b, i + 1)

\* faulty variant: one common element is enough
subscriptionsSubsetOrEqual_overlap(a, b) ==
    a = <<>> \/ \E i \in 1..Len(a) : Contains(b, a[i])

\* subscriptionsSubsetOrEqual: every element of a is in b
subscriptionsSubsetOrEqual(a, b) == subsetLoop(a, b, 1)

\* faulty variant: every two configurations match
compareConfig_always(a, b) == [match |-> TRUE, err |-> "nil"]

\* faulty variant: only a within b is tested
compareConfig_oneway(a, b) ==
    LET configA == decodeWebhookConfiguration(a)
        configB == decodeWebhookConfiguration(b)
    IN  IF configA.err # "nil" THEN [match |-> FALSE, err |-> configA.err]
        ELSE IF configB.err # "nil" THEN [match |-> FALSE, err |-> configB.err]
        ELSE [match |-> subscriptionsSubsetOrEqual(configA.Subscriptions, configB.Subscriptions),
              err |-> "nil"]

\* CompareConfig(a, b): (match, err)
compareConfig(a, b) ==
    LET configA == decodeWebhookConfiguration(a)
        configB == decodeWebhookConfiguration(b)
    IN  IF configA.err # "nil" THEN [match |-> FALSE, err |-> configA.err]
        ELSE IF configB.err # "nil" THEN [match |-> FALSE, err |-> configB.err]
        ELSE [match |->
                 \/ subscriptionsSubsetOrEqual(configA.Subscriptions, configB.Subscriptions)
                 \/ subscriptionsSubsetOrEqual(configB.Subscriptions, configA.Subscriptions),
              err |-> "nil"]

\* the nil a failed Merge returns for the merged configuration
NilConfig == [kind |-> "nil", subscriptions |-> <<>>]

\* faulty variant: the current configuration is never expanded
merge_never(current, requested) ==
    LET cur == decodeWebhookConfiguration(current)
        req == decodeWebhookConfiguration(requested)
    IN  IF cur.err # "nil" THEN [value |-> NilConfig, changed |-> FALSE, err |-> cur.err]
        ELSE IF req.err # "nil" THEN [value |-> NilConfig, changed |-> FALSE, err |-> req.err]
        ELSE [value |-> current, changed |-> FALSE, err |-> "nil"]

\* faulty variant: the requested configuration replaces the current one whenever it
\* covers it, also when the two are equal
merge_nonstrict(current, requested) ==
    LET cur == decodeWebhookConfiguration(current)
        req == decodeWebhookConfiguration(requested)
    IN  IF cur.err # "nil" THEN [value |-> NilConfig, changed |-> FALSE, err |-> cur.err]
        ELSE IF req.err # "nil" THEN [value |-> NilConfig, changed |-> FALSE, err |-> req.err]
        ELSE IF subscriptionsSubsetOrEqual(cur.Subscriptions, req.Subscriptions)
             THEN [value |-> [kind |-> "WebhookConfiguration",
                              subscriptions |-> req.Subscriptions],
                   changed |-> TRUE, err |-> "nil"]
        ELSE [value |-> current, changed |-> FALSE, err |-> "nil"]

\* faulty variant: whatever the current configuration does not cover is added to it
merge_union(current, requested) ==
    LET cur == decodeWebhookConfiguration(current)
        req == decodeWebhookConfiguration(requested)
    IN  IF cur.err # "nil" THEN [value |-> NilConfig, changed |-> FALSE, err |-> cur.err]
        ELSE IF req.err # "nil" THEN [value |-> NilConfig, changed |-> FALSE, err |-> req.err]
        ELSE IF ~subscriptionsSubsetOrEqual(req.Subscriptions, cur.Subscriptions)
             THEN [value |-> [kind |-> "WebhookConfiguration",
                              subscriptions |->
                                  IF subscriptionsSubsetOrEqual(cur.Subscriptions,
                                                                req.Subscriptions)
                                  THEN req.Subscriptions
                                  ELSE cur.Subscriptions \o req.Subscriptions],
                   changed |-> TRUE, err |-> "nil"]
        ELSE [value |-> current, changed |-> FALSE, err |-> "nil"]

\* faulty variant: the expansion is reported but the requested subscriptions
\* are not assigned
merge_noassign(current, requested) ==
    LET cur == decodeWebhookConfiguration(current)
        req == decodeWebhookConfiguration(requested)
    IN  IF cur.err # "nil" THEN [value |-> NilConfig, changed |-> FALSE, err |-> cur.err]
        ELSE IF req.err # "nil" THEN [value |-> NilConfig, changed |-> FALSE, err |-> req.err]
        ELSE IF /\ subscriptionsSubsetOrEqual(cur.Subscriptions, req.Subscriptions)
                /\ ~subscriptionsSubsetOrEqual(req.Subscriptions, cur.Subscriptions)
             THEN [value |-> [kind |-> "WebhookConfiguration",
                              subscriptions |-> cur.Subscriptions],
                   changed |-> TRUE, err |-> "nil"]
        ELSE [value |-> current, changed |-> FALSE, err |-> "nil"]

\* Merge(current, requested): (merged, changed, err)
merge(current, requested) ==
    LET cur == decodeWebhookConfiguration(current)
        req == decodeWebhookConfiguration(requested)
    IN  IF cur.err # "nil" THEN [value |-> NilConfig, changed |-> FALSE, err |-> cur.err]
        ELSE IF req.err # "nil" THEN [value |-> NilConfig, changed |-> FALSE, err |-> req.err]
        ELSE IF /\ subscriptionsSubsetOrEqual(cur.Subscriptions, req.Subscriptions)
                /\ ~subscriptionsSubsetOrEqual(req.Subscriptions, cur.Subscriptions)
             THEN [value |-> [kind |-> "WebhookConfiguration",
                              subscriptions |-> req.Subscriptions],
                   changed |-> TRUE, err |-> "nil"]
        ELSE [value |-> current, changed |-> FALSE, err |-> "nil"]

(***************************************************************************)
(* The lists of subscriptions of the upstream sync: mergeSubscriptions and *)
(* subscriptionsEqual.                                                     *)
(***************************************************************************)
\* the place of an event class in the order of slices.Sort
SortKey(class) ==
    CASE class = "change_events" -> 1
      [] class = "incidents" -> 2
      [] class = "incidents.private" -> 3

RECURSIVE sortInsert(_, _)
\* list is sorted: x goes before the first entry that is greater
sortInsert(list, x) ==
    IF list = <<>> THEN <<x>>
    ELSE IF SortKey(x) < SortKey(Head(list)) THEN <<x>> \o list
    ELSE <<Head(list)>> \o sortInsert(Tail(list), x)

RECURSIVE slicesSort(_)
\* slices.Sort
slicesSort(list) ==
    IF list = <<>> THEN <<>>
    ELSE sortInsert(slicesSort(SubSeq(list, 1, Len(list) - 1)), list[Len(list)])

\* faulty variant: the merge starts from the requested subscriptions alone
appendMissing_fresh(merged, requested, i) == requested

RECURSIVE appendMissing(_, _, _)
\* for _, sub := range requested { if !slices.Contains(merged, sub) { append } }
appendMissing(merged, requested, i) ==
    IF i > Len(requested) THEN merged
    ELSE IF Contains(merged, requested[i]) THEN appendMissing(merged, requested, i + 1)
    ELSE appendMissing(Append(merged, requested[i]), requested, i + 1)

\* faulty variant: the current subscriptions are returned, sorted
mergeSubscriptions_current(current, requested) == slicesSort(current)

\* faulty variant: the requested subscriptions replace the current ones
mergeSubscriptions_replace(current, requested) == slicesSort(requested)

\* mergeSubscriptions
mergeSubscriptions(current, requested) ==
    slicesSort(appendMissing(current, requested, 1))

\* faulty variant: the lists are compared as they come
subscriptionsEqual_ordered(a, b) == a = b

\* subscriptionsEqual
subscriptionsEqual(a, b) == slicesSort(a) = slicesSort(b)

(***************************************************************************)
(* Inputs of the reconciler.                                               *)
(***************************************************************************)
\* the event classes a webhook can subscribe to
EventClasses == {"incidents", "incidents.private", "change_events"}

\* raw webhook configurations: a value that is no map, and maps of every list
\* of subscriptions, in every order and with repeated entries
RawConfigs ==
    {[kind |-> "invalid", subscriptions |-> <<>>]}
    \cup [kind : {"map"}, subscriptions : SeqsUpTo(EventClasses, MaxSubs)]

\* the webhook configuration with a list of subscriptions
ConfigOf(subscriptions) == [kind |-> "map", subscriptions |-> subscriptions]

\* the scope of a raw configuration, as a set
Scope(raw) == {raw.subscriptions[i] : i \in 1..Len(raw.subscriptions)}

(***************************************************************************)
(* SpecReconcile: CompareConfig and Merge called directly.                 *)
(***************************************************************************)
InitReconcile ==
    /\ secret = <<>>
    /\ configuration = [kind |-> "nil", severities |-> <<>>, current_milestone |-> <<>>]
    /\ Idle
    /\ call \in [fn : {"CompareConfig", "Merge", "mergeSubscriptions"},
                 a : RawConfigs, b : RawConfigs,
                 done : {FALSE}, match : {FALSE}, changed : {FALSE},
                 value : {NilConfig}, err : {"nil"},
                 again : {FALSE}, changed2 : {FALSE}, value2 : {NilConfig},
                 err2 : {"nil"}]

CompareConfig ==
    /\ call.fn = "CompareConfig"
    /\ ~call.done
    /\ LET r == compareConfig(call.a, call.b)
       IN  call' = [call EXCEPT !.done = TRUE, !.match = r.match, !.err = r.err]
    /\ UNCHANGED <<secret, configuration, request, status, err, events>>
    /\ UNCHANGED regVars

Merge ==
    /\ call.fn = "Merge"
    /\ ~call.done
    /\ LET r == merge(call.a, call.b)
       IN  call' = [call EXCEPT !.done = TRUE, !.value = r.value,
                                !.changed = r.changed, !.err = r.err]
    /\ UNCHANGED <<secret, configuration, request, status, err, events>>
    /\ UNCHANGED regVars

\* Merge is applied once more: the configuration it returned is merged with
\* the same requested configuration
MergeAgain ==
    /\ call.fn = "Merge"
    /\ call.done
    /\ ~call.again
    /\ call.err = "nil"
    /\ LET r == merge(call.value, call.b)
       IN  call' = [call EXCEPT !.again = TRUE, !.value2 = r.value,
                                !.changed2 = r.changed, !.err2 = r.err]
    /\ UNCHANGED <<secret, configuration, request, status, err, events>>
    /\ UNCHANGED regVars

\* mergeSubscriptions called on the subscriptions of two configurations
MergeSubscriptions ==
    /\ call.fn = "mergeSubscriptions"
    /\ ~call.done
    /\ call.a.kind = "map"
    /\ call.b.kind = "map"
    /\ call' = [call EXCEPT !.done = TRUE,
                            !.value = ConfigOf(mergeSubscriptions(call.a.subscriptions,
                                                                  call.b.subscriptions))]
    /\ UNCHANGED <<secret, configuration, request, status, err, events>>
    /\ UNCHANGED regVars

NextReconcile == CompareConfig \/ Merge \/ MergeAgain \/ MergeSubscriptions

SpecReconcile == InitReconcile /\ [][NextReconcile]_vars

\* a finished direct call of CompareConfig / of Merge, on decodable scopes
Compared == call.fn = "CompareConfig" /\ call.done

Merged == call.fn = "Merge" /\ call.done

Decodable == call.a.kind = "map" /\ call.b.kind = "map"

(***************************************************************************)
(* Upstream sync: FireHydrantWebhookHandler.Setup and findOrCreateWebhook. *)
(* A webhook of the provider is a record of id, url, secret and            *)
(* subscriptions; ids are positive, 0 stands for "no webhook".             *)
(***************************************************************************)
\* the executions of Setup in one behaviour
MaxRuns == 3

\* ctx.Webhook.GetURL() of this deployment, and the URL of another one
CallbackURL == "https://hooks/firehydrant"

OtherURL == "https://elsewhere/hook"

Webhook(id, url, key, subscriptions) ==
    [id |-> id, url |-> url, secret |-> key, subscriptions |-> subscriptions]

RECURSIVE findLoop(_, _, _)
\* for _, webhook := range webhooks { if webhook.URL == url { return &webhook } }
findLoop(webhooks, url, i) ==
    IF i > Len(webhooks) THEN 0
    ELSE IF webhooks[i].url = url THEN i
    ELSE findLoop(webhooks, url, i + 1)

\* findWebhookByURL: the place in webhooks of the first webhook with the URL,
\* 0 for nil
findWebhookByURL(webhooks, url) == findLoop(webhooks, url, 1)

\* the provider's webhook with an id: its place in upstream, 0 if there is none
PlaceOf(id) ==
    IF \E i \in 1..Len(upstream) : upstream[i].id = id
    THEN CHOOSE i \in 1..Len(upstream) : upstream[i].id = id
    ELSE 0

\* the set of event classes of a list of subscriptions
ScopeOf(subscriptions) == {subscriptions[i] : i \in 1..Len(subscriptions)}

\* client.UpdateWebhook(id, url, subscriptions) on the provider: the webhook
\* takes the url and the subscriptions
UpdateWebhook(id, url, subscriptions) ==
    [upstream EXCEPT ![PlaceOf(id)] =
        [@ EXCEPT !.url = url, !.subscriptions = subscriptions]]

\* client.CreateWebhook(url, secret, subscriptions) on the provider: a webhook
\* with a new id; the provider keeps the secret it is given, and may issue one
\* when it is given none
CreateWebhook(url, key, subscriptions, issued) ==
    Append(upstream,
           Webhook(Len(upstream) + 1, url, IF key = <<>> THEN issued ELSE key,
                   subscriptions))

\* an upstream call of an execution: the operation, whether it succeeded, and
\* the subscriptions it carried
UpstreamCall(op, ok, subscriptions) ==
    [op |-> op, ok |-> ok, subscriptions |-> subscriptions]

\* a successful write to upstream by executor p, which last listed when seen
\* writes had been made, on behalf of the subscriptions its Setup was run with
Write(p, op, id, before, after) ==
    [by |-> p, op |-> op, id |-> id, seen |-> setups[p].seen,
     requested |-> setups[p].requested,
     before |-> before, after |-> after]

(***************************************************************************)
(* Inputs of Setup.                                                        *)
(***************************************************************************)
\* the webhook configurations Setup is run with: one that is no map, and one
\* for each event class
SetupConfigs ==
    {[kind |-> "invalid", subscriptions |-> <<>>]}
    \cup [kind : {"map"},
          subscriptions : {<<"incidents">>, <<"incidents.private">>,
                           <<"change_events">>}]

\* failures before the first upstream call: NewClient, ctx.Webhook.GetSecret
SetupFaults == {"none", "newClient", "getSecret"}

\* what the provider holds before the first Setup: nothing, a webhook with the
\* callback URL, and one with an unsorted scope behind a webhook of another
\* deployment
InitialUpstreams ==
    {<<>>,
     <<Webhook(1, CallbackURL, <<1>>, <<"incidents">>)>>,
     <<Webhook(1, OtherURL, <<2>>, <<"change_events">>),
       Webhook(2, CallbackURL, <<1>>, <<"incidents.private", "incidents">>)>>}

\* the secrets the provider may issue to a webhook created without one
IssuedSecrets == {<<>>, <<2>>}

(***************************************************************************)
(* SpecSetup: two executors run Setup, their upstream calls interleaved.   *)
(***************************************************************************)
InitSetup ==
    /\ secret \in {<<>>, <<1>>}
    /\ configuration = [kind |-> "nil", severities |-> <<>>, current_milestone |-> <<>>]
    /\ request = NoRequest
    /\ status = 0
    /\ err = "nil"
    /\ events = <<>>
    /\ call = NoCall
    /\ upstream \in InitialUpstreams
    /\ setups = [p \in Procs |-> NoSetup]
    /\ log = <<>>
    /\ registry = <<>>

\* the executions started so far
Runs == setups[1].runs + setups[2].runs

\* Setup up to its first upstream call: decode the configuration, build the
\* client, read the stored secret
SetupStart(p) ==
    /\ setups[p].pc \in {"idle", "done"}
    /\ Runs < MaxRuns
    /\ \E raw \in SetupConfigs, fault \in SetupFaults :
         LET config == decodeWebhookConfiguration(raw)
             fresh == [NoSetup EXCEPT !.runs = setups[p].runs + 1]
             failed(error) == [fresh EXCEPT !.pc = "done", !.err = error]
         IN  setups' = [setups EXCEPT ![p] =
                 IF config.err # "nil"
                 THEN failed("error decoding webhook configuration")
                 ELSE IF fault = "newClient" THEN failed("error creating client")
                 ELSE IF fault = "getSecret" THEN failed("error getting webhook secret")
                 ELSE [fresh EXCEPT !.pc = "list",
                                    !.requested = config.Subscriptions,
                                    !.key = secret]]
    /\ UNCHANGED <<secret, configuration, request, status, err, events, call>>
    /\ UNCHANGED <<upstream, log, registry>>

\* findOrCreateWebhook: client.ListWebhooks() and what follows it without
\* another upstream call
ListWebhooks(p) ==
    /\ setups[p].pc = "list"
    /\ \E ok \in BOOLEAN :
         LET me == setups[p]
             listed == [me EXCEPT !.calls = Append(@, UpstreamCall("list", ok, <<>>)),
                                  !.seen = Len(log)]
             place == findWebhookByURL(upstream, CallbackURL)
             webhook == upstream[place]
             mergedSubscriptions == mergeSubscriptions(webhook.subscriptions, me.requested)
         IN  setups' = [setups EXCEPT ![p] =
                 IF ~ok \/ place = 0
                 THEN [listed EXCEPT !.pc = "create", !.listed = ok]
                 ELSE IF subscriptionsEqual(webhook.subscriptions, mergedSubscriptions)
                 THEN [listed EXCEPT !.pc = "done", !.listed = TRUE,
                                     !.found = webhook.id,
                                     !.foundSubs = webhook.subscriptions,
                                     !.merged = mergedSubscriptions,
                                     !.metadata = webhook.id]
                 ELSE [listed EXCEPT !.pc = "update", !.listed = TRUE,
                                     !.found = webhook.id,
                                     !.foundSubs = webhook.subscriptions,
                                     !.merged = mergedSubscriptions]]
    /\ UNCHANGED <<secret, configuration, request, status, err, events, call>>
    /\ UNCHANGED <<upstream, log, registry>>

\* findOrCreateWebhook: client.UpdateWebhook(webhook.ID, webhookURL,
\* mergedSubscriptions) and the return of Setup
SetupUpdate(p) ==
    /\ setups[p].pc = "update"
    /\ \E ok \in BOOLEAN :
         LET me == setups[p]
             place == PlaceOf(me.found)
             called == [me EXCEPT !.pc = "done",
                                  !.calls = Append(@, UpstreamCall("update", ok, me.merged))]
         IN  IF ok /\ place # 0
             THEN /\ upstream' = UpdateWebhook(me.found, CallbackURL, me.merged)
                  /\ log' = Append(log, Write(p, "update", me.found,
                                              upstream[place].subscriptions, me.merged))
                  /\ setups' = [setups EXCEPT ![p] = [called EXCEPT !.metadata = me.found]]
             ELSE /\ ~ok
                  /\ setups' = [setups EXCEPT ![p] =
                                   [called EXCEPT !.err = "error updating webhook"]]
                  /\ UNCHANGED <<upstream, log>>
    /\ UNCHANGED <<secret, configuration, request, status, err, events, call>>
    /\ UNCHANGED registry

\* findOrCreateWebhook: client.CreateWebhook(webhookURL, secret, subscriptions)
\* and the return of Setup
SetupCreate(p) ==
    /\ setups[p].pc = "create"
    /\ \E ok \in BOOLEAN, issued \in IssuedSecrets :
         LET me == setups[p]
             called == [me EXCEPT !.pc = "done",
                                  !.calls = Append(@, UpstreamCall("create", ok, me.requested))]
         IN  IF ok
             THEN /\ upstream' = CreateWebhook(CallbackURL, me.key, me.requested, issued)
                  /\ log' = Append(log, Write(p, "create", Len(upstream) + 1,
                                              <<>>, me.requested))
                  /\ setups' = [setups EXCEPT ![p] =
                                   [called EXCEPT !.metadata = Len(upstream) + 1]]
             ELSE /\ issued = <<>>
                  /\ setups' = [setups EXCEPT ![p] =
                                   [called EXCEPT !.err = "error creating webhook"]]
                  /\ UNCHANGED <<upstream, log>>
    /\ UNCHANGED <<secret, configuration, request, status, err, events, call>>
    /\ UNCHANGED registry

NextSetup ==
    \E p \in Procs : SetupStart(p) \/ ListWebhooks(p) \/ SetupUpdate(p) \/ SetupCreate(p)

SpecSetup == InitSetup /\ [][NextSetup]_vars

(***************************************************************************)
(* SpecHost: the host attaches subscription requests to webhook records.   *)
(* A request goes to the first record whose configuration CompareConfig    *)
(* matches with the request's, and that record's configuration becomes     *)
(* what Merge returns; a request no record matches gets a record of its    *)
(* own.                                                                    *)
(***************************************************************************)
\* the subscription requests in one behaviour
MaxRequests == 3

\* the configurations subscribers request
HostRequests ==
    {ConfigOf(subscriptions) :
        subscriptions \in {<<>>, <<"incidents">>, <<"incidents.private">>,
                           <<"change_events">>,
                           <<"incidents", "incidents.private">>,
                           <<"incidents.private", "incidents">>,
                           <<"change_events", "incidents">>}}

\* a webhook record: its configuration and the requests it serves
Registration(config, served) == [configuration |-> config, served |-> served]

RECURSIVE ServedUpTo(_)
\* the requests served by the first i records
ServedUpTo(i) == IF i = 0 THEN 0 ELSE ServedUpTo(i - 1) + Len(registry[i].served)

\* the records whose configuration matches a request
Matching(req) ==
    {i \in 1..Len(registry) : compareConfig(registry[i].configuration, req).match}

InitHost ==
    /\ secret = <<>>
    /\ configuration = [kind |-> "nil", severities |-> <<>>, current_milestone |-> <<>>]
    /\ Idle
    /\ call = NoCall

\* a subscriber asks for a webhook
RequestWebhook ==
    /\ ServedUpTo(Len(registry)) < MaxRequests
    /\ \E req \in HostRequests :
         IF Matching(req) = {}
         THEN registry' = Append(registry, Registration(req, <<req>>))
         ELSE LET i == CHOOSE m \in Matching(req) : \A n \in Matching(req) : m <= n
                  r == merge(registry[i].configuration, req)
              IN  /\ r.err = "nil"
                  /\ registry' = [registry EXCEPT ![i] =
                         Registration(IF r.changed THEN r.value ELSE @.configuration,
                                      Append(@.served, req))]
    /\ UNCHANGED <<secret, configuration, request, status, err, events, call>>
    /\ UNCHANGED <<upstream, setups, log>>

NextHost == RequestWebhook

SpecHost == InitHost /\ [][NextHost]_vars

(***************************************************************************)
(* Claims.                                                                 *)
(***************************************************************************)
\* what the verifier says of the delivery last handled
RequestVerdict == verifyWebhookSignature(request.signature, request.body, secret)

\* the handler got as far as the verifier: the configuration decoded (or was
\* nil) and the secret could be read
ReachedVerifier ==
    /\ request.handled
    /\ configuration.kind # "invalid"
    /\ request.fault # "getSecret"

\* C1: while the secret is non-empty, a delivery emits an event only if its
\* signature verified; a delivery whose fh-signature is missing or does not
\* match emits nothing and, once the handler has its filter configuration and
\* the secret, is answered 403, whatever its body and the filter configuration.
C1_EmitOnlyIfVerified ==
    (request.handled /\ secret # <<>>) =>
        /\ events # <<>> => RequestVerdict = "nil"
        /\ RequestVerdict # "nil" => events = <<>>
        /\ (ReachedVerifier /\ RequestVerdict # "nil") =>
               (status = StatusForbidden /\ err = "invalid signature")

\* a wrongly signed incident CREATED delivery, which the filter would let
\* through, is answered 403 and emits nothing
C1_Witness ==
    /\ ReachedVerifier
    /\ secret # <<>>
    /\ request.signature # <<>>
    /\ request.signature # computeHMACSHA256(secret, request.body)
    /\ request.body = <<1, 1, 1, 1, 2, 0, 0>>
    /\ configuration.kind = "map"
    /\ configuration.current_milestone = <<"started">>
    /\ configuration.severities = <<>>
    /\ request.fault = "none"
    /\ status = StatusForbidden
    /\ events = <<>>

\* C2: with a non-empty secret the verifier succeeds only on exactly the
\* lowercase hex HMAC-SHA256 of the body under the secret; every other
\* signature sent (of another length, differing in a byte, in upper case, made
\* for another body or with another secret) fails with "signature mismatch".
\* The empty signature is the absent one, which C4 is about.
C2_OnlyExactSignature ==
    (Verified /\ call.secret # <<>>) =>
        LET good == computeHMACSHA256(call.secret, call.body)
        IN  /\ call.result = "nil" <=> call.signature = good
            /\ (call.signature # <<>> /\ call.signature # good) =>
                   call.result = "signature mismatch"
            /\ \A k \in Secrets, d \in VerifyBodies :
                   (<<k, d>> # <<call.secret, call.body>>
                       /\ call.signature = computeHMACSHA256(k, d)) =>
                       call.result = "signature mismatch"

\* a signature one character short of the right one is a mismatch
C2_Witness ==
    /\ Verified
    /\ call.secret # <<>>
    /\ Len(call.signature) = DigestHexLen - 1
    /\ call.signature = SubSeq(computeHMACSHA256(call.secret, call.body), 1, DigestHexLen - 1)
    /\ call.result = "signature mismatch"

\* C3: for every non-empty secret and every body, the signature
\* computeHMACSHA256(secret, body) verifies.
C3_GoodSignatureAccepted ==
    (Verified /\ call.secret # <<>>
        /\ call.signature = computeHMACSHA256(call.secret, call.body)) =>
        call.result = "nil"

\* a correctly signed non-empty body under a non-empty secret was accepted
C3_Witness ==
    /\ Verified
    /\ call.secret # <<>>
    /\ call.body # <<>>
    /\ call.signature = computeHMACSHA256(call.secret, call.body)
    /\ call.result = "nil"

\* C4: with a non-empty secret and an empty signature the verifier fails with
\* "missing signature", for every body, and never with "signature mismatch".
C4_MissingSignature ==
    (Verified /\ call.secret # <<>> /\ call.signature = <<>>) =>
        (call.result = "missing signature" /\ call.result # "signature mismatch")

\* an unsigned body under a non-empty secret was refused as unsigned
C4_Witness ==
    /\ Verified
    /\ call.secret # <<>>
    /\ call.signature = <<>>
    /\ call.body # <<>>
    /\ call.result = "missing signature"

\* an incident CREATED delivery that the configured filter lets through
PassingCreated ==
    /\ ReachedVerifier
    /\ request.fault = "none"
    /\ request.body \in {<<1, 1, 1, 1, 2, 0, 0>>, <<1, 1, 0, 0, 0, 0, 0>>}
    /\ Contains(configuration.current_milestone, "started")
    /\ configuration.severities = <<>>

\* C5: with an empty secret verification is skipped: the verifier accepts every
\* signature (empty, right or garbage) on every body, no delivery is answered
\* 403, and an incident CREATED delivery the filter lets through emits its
\* event whatever its signature.
C5_EmptySecretSkips ==
    (request.handled /\ secret = <<>>) =>
        /\ RequestVerdict = "nil"
        /\ status # StatusForbidden
        /\ err # "invalid signature"
        /\ PassingCreated =>
               /\ status = StatusOK
               /\ Len(events) = 1
               /\ events[1].type = "firehydrant.incident.created"

\* an unsigned incident CREATED delivery emitted its event
C5_Witness ==
    /\ request.handled
    /\ secret = <<>>
    /\ request.signature = <<>>
    /\ PassingCreated
    /\ status = StatusOK
    /\ Len(events) = 1
    /\ events[1].type = "firehydrant.incident.created"

\* C6: on decodable scopes CompareConfig returns no error and matches exactly
\* when one scope, as a set, is contained in the other; neither containing the
\* other gives false, two empty scopes give true.
C6_CompareIsContainment ==
    (Compared /\ Decodable) =>
        /\ call.err = "nil"
        /\ call.match <=>
               (Scope(call.a) \subseteq Scope(call.b) \/ Scope(call.b) \subseteq Scope(call.a))
        /\ (call.a.subscriptions = <<>> /\ call.b.subscriptions = <<>>) => call.match

\* two scopes that share a class, neither containing the other, did not match
C6_Witness ==
    /\ Compared
    /\ Decodable
    /\ Scope(call.a) \cap Scope(call.b) # {}
    /\ ~(Scope(call.a) \subseteq Scope(call.b))
    /\ ~(Scope(call.b) \subseteq Scope(call.a))
    /\ ~call.match

\* C7: CompareConfig(a, b) and CompareConfig(b, a) return the same boolean and
\* both fail or both succeed.
C7_CompareSymmetric ==
    Compared =>
        LET swapped == compareConfig(call.b, call.a)
        IN  /\ swapped.match = call.match
            /\ (swapped.err = "nil") <=> (call.err = "nil")

\* a scope compared with a strict superset of it matched
C7_Witness ==
    /\ Compared
    /\ Decodable
    /\ Scope(call.a) \subseteq Scope(call.b)
    /\ Scope(call.a) # Scope(call.b)
    /\ call.a.subscriptions # <<>>
    /\ call.match

\* C8: when the current scope is a strict subset of the requested one (the
\* empty current scope included), Merge returns the requested scope and
\* changed = true.
C8_MergeExpands ==
    (Merged /\ Decodable /\ Scope(call.a) \subseteq Scope(call.b)
        /\ Scope(call.a) # Scope(call.b)) =>
        /\ call.err = "nil"
        /\ call.changed
        /\ call.value.subscriptions = call.b.subscriptions

\* an empty current scope was expanded to the requested one
C8_Witness ==
    /\ Merged
    /\ Decodable
    /\ call.a.subscriptions = <<>>
    /\ Len(call.b.subscriptions) = MaxSubs
    /\ call.changed
    /\ call.value.subscriptions = call.b.subscriptions

\* C9: when the requested scope is contained in or equal to the current one
\* (equal, or empty, included), Merge returns the current configuration as it
\* was given and changed = false.
C9_MergeCovered ==
    (Merged /\ Decodable /\ Scope(call.b) \subseteq Scope(call.a)) =>
        /\ call.err = "nil"
        /\ ~call.changed
        /\ call.value = call.a

\* a request for the current scope, listed in another order, changed nothing
C9_Witness ==
    /\ Merged
    /\ Decodable
    /\ Scope(call.b) = Scope(call.a)
    /\ call.b.subscriptions # call.a.subscriptions
    /\ ~call.changed
    /\ call.value = call.a

\* C10: when neither scope contains the other (disjoint non-empty scopes in
\* particular), Merge returns the current configuration as it was given and
\* changed = false: nothing requested is added.
C10_MergeLeavesIncompatible ==
    (Merged /\ Decodable /\ ~(Scope(call.a) \subseteq Scope(call.b))
        /\ ~(Scope(call.b) \subseteq Scope(call.a))) =>
        /\ call.err = "nil"
        /\ ~call.changed
        /\ call.value = call.a
        /\ Scope(call.value) \cap (Scope(call.b) \ Scope(call.a)) = {}

\* two disjoint non-empty scopes were merged and the current one came back
C10_Witness ==
    /\ Merged
    /\ Decodable
    /\ call.a.subscriptions # <<>>
    /\ call.b.subscriptions # <<>>
    /\ Scope(call.a) \cap Scope(call.b) = {}
    /\ ~call.changed
    /\ call.value = call.a

\* C11: Merge applied again to what it returned and the same requested
\* configuration returns that configuration with changed = false, whatever the
\* relation of the two scopes.
C11_MergeIdempotent ==
    (call.fn = "Merge" /\ call.again) =>
        /\ call.err2 = "nil"
        /\ ~call.changed2
        /\ call.value2 = call.value

\* a Merge that expanded the current scope was applied again and changed nothing
C11_Witness ==
    /\ call.fn = "Merge"
    /\ call.again
    /\ call.changed
    /\ call.a.subscriptions # <<>>
    /\ ~call.changed2
    /\ call.value2 = call.value

\* the delivery was authenticated and its body parsed: HandleWebhook came to
\* its filter
ReachedFilter ==
    /\ ReachedVerifier
    /\ RequestVerdict = "nil"
    /\ jsonUnmarshal(request.body).err = "nil"

\* C19: an event is emitted only for resource type "incident" with operation
\* CREATED or UPDATED; a parsed delivery of any other resource type or operation
\* is answered 200 with no error and no event, whatever the record, the
\* configured filter and the state of the event sink.
C19_OnlyIncidentCreatedUpdated ==
    LET payload == jsonUnmarshal(request.body)
        routed == /\ payload.Event.ResourceType = "incident"
                  /\ payload.Event.Operation \in {"CREATED", "UPDATED"}
    IN  /\ events # <<>> => (ReachedFilter /\ routed)
        /\ (ReachedFilter /\ ~routed) =>
               /\ status = StatusOK
               /\ err = "nil"
               /\ events = <<>>

\* a signed change_event CREATED delivery carrying a record, under a filter that
\* would pass an incident, was answered 200 without an event
C19_Witness ==
    /\ ReachedFilter
    /\ secret # <<>>
    /\ request.body = <<2, 1, 1, 1, 2, 0, 0>>
    /\ Contains(configuration.current_milestone, "started")
    /\ configuration.severities = <<>>
    /\ status = StatusOK
    /\ events = <<>>

\* an incident CREATED delivery under a milestone allow-list that is set, with
\* no severity filter or one that the record's severity slug passes, and an
\* event sink that works
CreatedUnderAllowList ==
    /\ ReachedFilter
    /\ request.fault = "none"
    /\ request.body[1] = 1
    /\ request.body[2] = 1
    /\ configuration.kind = "map"
    /\ configuration.current_milestone # <<>>
    /\ \/ configuration.severities = <<>>
       \/ configuration.severities = <<"SEV1">> /\ request.body[4] = 1

\* C20: an authenticated incident CREATED delivery, under a configured milestone
\* allow-list and a severity filter that is unset or passes, emits exactly one
\* firehydrant.incident.created if the allow-list contains "started" and nothing
\* if it does not, whatever the record's current milestone and milestone history.
C20_CreatedMatchesStarted ==
    CreatedUnderAllowList =>
        /\ status = StatusOK
        /\ IF Contains(configuration.current_milestone, "started")
           THEN Len(events) = 1 /\ events[1].type = "firehydrant.incident.created"
           ELSE events = <<>>

\* a CREATED delivery of a record that is resolved, with two milestones behind
\* it, emitted under the allow-list {started}
C20_Witness ==
    /\ CreatedUnderAllowList
    /\ request.body[5] = 3
    /\ request.body[6] = 3
    /\ configuration.current_milestone = <<"started">>
    /\ Len(events) = 1
    /\ events[1].type = "firehydrant.incident.created"

\* executor p has returned from a Setup that listed the provider's webhooks
\* and found one with the callback URL
SyncedExisting(p) ==
    /\ setups[p].pc = "done"
    /\ setups[p].listed
    /\ setups[p].found # 0

\* the upstream calls of executor p after its listing
CallsAfterList(p) == Tail(setups[p].calls)

\* C15: a Setup that lists successfully and finds a webhook with the callback
\* URL issues, after the listing, exactly one update carrying the union of the
\* existing and the requested scope when that union differs from the existing
\* scope as a set, and no call at all when the requested scope is covered; it
\* never creates, and the id it returns on success is the existing webhook's.
C15_SyncExisting ==
    \A p \in Procs :
        SyncedExisting(p) =>
            LET me == setups[p]
                existing == ScopeOf(me.foundSubs)
                union == existing \cup ScopeOf(me.requested)
            IN  /\ me.calls[1] = UpstreamCall("list", TRUE, <<>>)
                /\ IF union # existing
                   THEN /\ Len(CallsAfterList(p)) = 1
                        /\ CallsAfterList(p)[1].op = "update"
                        /\ ScopeOf(CallsAfterList(p)[1].subscriptions) = union
                   ELSE CallsAfterList(p) = <<>>
                /\ me.err = "nil" => me.metadata = me.found
                /\ me.err # "nil" => me.metadata = 0

\* both cases at once: one executor expanded the webhook it found, the other
\* reused it, its unsorted scope covering the request
C15_Witness ==
    \E p, q \in Procs :
        /\ SyncedExisting(p)
        /\ Len(CallsAfterList(p)) = 1
        /\ CallsAfterList(p)[1].ok
        /\ setups[p].metadata = setups[p].found
        /\ SyncedExisting(q)
        /\ CallsAfterList(q) = <<>>
        /\ setups[q].foundSubs = <<"incidents.private", "incidents">>
        /\ setups[q].metadata = setups[q].found

\* executor p synced a request against a webhook whose scope is not empty and
\* has no event class in common with the request
SyncedDisjoint(p) ==
    /\ SyncedExisting(p)
    /\ setups[p].foundSubs # <<>>
    /\ ScopeOf(setups[p].foundSubs) \cap ScopeOf(setups[p].requested) = {}

\* C14 as stated: neither Merge nor the upstream sync of Setup touches a
\* webhook whose non-empty scope is disjoint from the requested scope: Merge
\* returns the current configuration unchanged, and the sync issues no update.
C14_NeverUnionsDisjoint ==
    \A p \in Procs :
        SyncedDisjoint(p) =>
            LET r == merge(ConfigOf(setups[p].foundSubs), ConfigOf(setups[p].requested))
            IN  /\ ~r.changed
                /\ r.value = ConfigOf(setups[p].foundSubs)
                /\ CallsAfterList(p) = <<>>

\* C14, amended: on a non-empty scope disjoint from the requested one, Merge
\* returns the current configuration unchanged with changed = false, whereas the
\* upstream sync of Setup does union: it issues exactly one update carrying the
\* existing scope together with the requested one.
C14_OnlyMergeLeavesDisjoint ==
    \A p \in Procs :
        SyncedDisjoint(p) =>
            LET me == setups[p]
                r == merge(ConfigOf(me.foundSubs), ConfigOf(me.requested))
            IN  /\ r.err = "nil"
                /\ ~r.changed
                /\ r.value = ConfigOf(me.foundSubs)
                /\ Len(CallsAfterList(p)) = 1
                /\ CallsAfterList(p)[1].op = "update"
                /\ ScopeOf(CallsAfterList(p)[1].subscriptions) =
                       ScopeOf(me.foundSubs) \cup ScopeOf(me.requested)

\* a sync of change_events against a webhook of incidents went through: the
\* provider's webhook now has both
C14_Witness ==
    \E p \in Procs :
        /\ SyncedDisjoint(p)
        /\ setups[p].requested = <<"change_events">>
        /\ setups[p].foundSubs = <<"incidents">>
        /\ CallsAfterList(p) =
               <<UpstreamCall("update", TRUE, <<"change_events", "incidents">>)>>
        /\ upstream[PlaceOf(setups[p].found)].subscriptions =
               <<"change_events", "incidents">>

\* C16: an upstream call of Setup that returns an error is the last upstream
\* call of that Setup, which returns an error and no metadata.
C16_UpstreamErrorAborts ==
    \A p \in Procs :
        \A i \in 1..Len(setups[p].calls) :
            ~setups[p].calls[i].ok =>
                /\ i = Len(setups[p].calls)
                /\ setups[p].pc = "done"
                /\ setups[p].err # "nil"
                /\ setups[p].metadata = 0

\* executor p has returned from a Setup that created a webhook
Created(p) ==
    /\ setups[p].pc = "done"
    /\ setups[p].calls # <<>>
    /\ setups[p].calls[Len(setups[p].calls)].op = "create"
    /\ setups[p].calls[Len(setups[p].calls)].ok

\* C17: after a Setup that created a webhook, the stored secret is the one the
\* provider issued if none was configured and the provider issued one, and is
\* the configured secret, unchanged, if one was configured.
C17_IssuedSecretStored ==
    \A p \in Procs :
        Created(p) =>
            LET webhook == upstream[PlaceOf(setups[p].metadata)]
            IN  /\ (setups[p].key = <<>> /\ webhook.secret # <<>>) =>
                       secret = webhook.secret
                /\ setups[p].key # <<>> => secret = setups[p].key

\* C12: no step of the reconciler takes an event class from the scope of a
\* webhook of the provider.
C12_ScopeOnlyGrows ==
    [][\A i \in 1..Len(upstream) :
           ScopeOf(upstream[i].subscriptions) \subseteq ScopeOf(upstream'[i].subscriptions)]_vars

\* write j to a webhook undoes write i: an event class that write i left in
\* the scope is not there after write j
Undoes(i, j) ==
    /\ i < j
    /\ log[i].id = log[j].id
    /\ ~(ScopeOf(log[i].after) \subseteq ScopeOf(log[j].after))

\* C18: Setup loses updates under concurrency, and only that way: whenever a
\* write to a webhook undoes an earlier write, the later writer is another
\* executor and listed the webhooks before the earlier write was made, so its
\* update was computed from a stale read.
C18_LostUpdateIsStaleWrite ==
    \A i, j \in 1..Len(log) :
        Undoes(i, j) =>
            /\ log[j].op = "update"
            /\ log[j].by # log[i].by
            /\ log[j].seen < i

\* two executors found the same webhook, each asked for a class it did not
\* have, both listed before either wrote, both updates went through: the
\* webhook has lost the first writer's class
C18_Witness ==
    \E i, j \in 1..Len(log) :
        /\ Undoes(i, j)
        /\ j = Len(log)
        /\ log[i].op = "update" /\ log[j].op = "update"
        /\ log[i].seen = log[j].seen
        /\ \E class \in ScopeOf(setups[log[i].by].requested) :
              /\ class \notin ScopeOf(log[i].before)
              /\ class \in ScopeOf(log[i].after)
              /\ class \notin ScopeOf(upstream[PlaceOf(log[i].id)].subscriptions)
        /\ ~(ScopeOf(setups[log[j].by].requested) \subseteq ScopeOf(log[j].before))

\* C13: the scope of every webhook record is the union of the scopes of the
\* requests it serves, requests being attached by CompareConfig and Merge.
C13_ScopeIsUnionOfServed ==
    \A i \in 1..Len(registry) :
        Scope(registry[i].configuration) =
            UNION {Scope(registry[i].served[k]) : k \in 1..Len(registry[i].served)}

\* two records: one took a request and then a wider one and was expanded, the
\* other was made for a request that is disjoint from it
C13_Witness ==
    /\ Len(registry) = 2
    /\ Len(registry[1].served) = 2
    /\ Scope(registry[1].served[1]) # Scope(registry[1].configuration)
    /\ Scope(registry[1].served[1]) # {}
    /\ Scope(registry[2].configuration) \cap Scope(registry[1].configuration) = {}
    /\ Scope(registry[2].configuration) # {}

\* an incident delivery with an operation, by its code in the body, that came
\* to the filter
IncidentDelivery(op) ==
    /\ ReachedFilter
    /\ request.body[1] = 1
    /\ request.body[2] = op

\* no severity allow-list is configured, or the record's severity is a nested
\* object whose slug is in it
SeverityFilterPasses ==
    \/ configuration.severities = <<>>
    \/ configuration.severities = <<"SEV1">> /\ request.body[4] = 1

\* C21: with no milestone allow-list configured (no configuration, or an empty
\* list), an authenticated incident CREATED delivery whose severity filter is
\* unset or passes emits exactly one firehydrant.incident.created, as under
\* the allow-list {started}.
C21_UnsetAllowListMeansStarted ==
    ( /\ IncidentDelivery(1)
      /\ request.fault = "none"
      /\ configuration.current_milestone = <<>>
      /\ SeverityFilterPasses ) =>
        /\ status = StatusOK
        /\ Len(events) = 1
        /\ events[1].type = "firehydrant.incident.created"

\* C22: an incident UPDATED delivery whose milestone history has exactly one
\* entry emits nothing, whatever its current milestone and severity and
\* whatever the allow-lists; once authenticated it is answered 200.
C22_BootstrapDedup ==
    ( /\ request.handled
      /\ WellFormed(request.body)
      /\ request.body[1] = 1
      /\ request.body[2] = 2
      /\ request.body[6] = 2 ) =>
        /\ events = <<>>
        /\ ReachedFilter => (status = StatusOK /\ err = "nil")

\* an UPDATED delivery of a resolved record of severity SEV1 with one
\* milestone in its history, under allow-lists that contain both
C22_Witness ==
    /\ IncidentDelivery(2)
    /\ request.fault = "none"
    /\ request.body[4] = 1
    /\ request.body[5] = 3
    /\ request.body[6] = 2
    /\ Contains(configuration.current_milestone, "resolved")
    /\ configuration.severities = <<"SEV1">>
    /\ status = StatusOK
    /\ events = <<>>

\* the record's current milestone is a string that is not empty and is in the
\* configured allow-list
MilestoneAllowed ==
    LET allowed == {configuration.current_milestone[i] :
                       i \in 1..Len(configuration.current_milestone)}
    IN  \/ request.body[5] = 2 /\ "started" \in allowed
        \/ request.body[5] = 3 /\ "resolved" \in allowed

\* C23: an authenticated incident UPDATED delivery whose milestone history is
\* absent, empty or longer than one, and whose severity filter is unset or
\* passes, emits exactly one firehydrant.incident.updated if the record's
\* current milestone is a non-empty string in the allow-list, and nothing
\* otherwise.
C23_UpdatedMatchesMilestone ==
    ( /\ IncidentDelivery(2)
      /\ request.fault = "none"
      /\ request.body[6] # 2
      /\ SeverityFilterPasses ) =>
        /\ status = StatusOK
        /\ IF MilestoneAllowed
           THEN Len(events) = 1 /\ events[1].type = "firehydrant.incident.updated"
           ELSE events = <<>>

\* an UPDATED delivery of a resolved record with two milestones behind it
\* emitted under the allow-list {resolved}
C23_Witness ==
    /\ IncidentDelivery(2)
    /\ request.body[5] = 3
    /\ request.body[6] = 3
    /\ configuration.current_milestone = <<"resolved">>
    /\ Len(events) = 1
    /\ events[1].type = "firehydrant.incident.updated"

\* C24: under a severity allow-list that is not empty an event is emitted only
\* for a record that has a severity slug in the list; a record without a
\* severity, or with a slug outside the list, emits nothing and is answered 200.
C24_SeverityAllowList ==
    (ReachedFilter /\ configuration.severities # <<>> /\ request.body[3] = 1) =>
        /\ events # <<>> => request.body[4] = 1
        /\ request.body[4] \in {0, 2} =>
               /\ events = <<>>
               /\ status = StatusOK
               /\ err = "nil"

\* a CREATED delivery of a record without a severity, which the allow-list
\* {started} lets through, emitted nothing under the severity allow-list {SEV1}
C24_Witness ==
    /\ IncidentDelivery(1)
    /\ request.fault = "none"
    /\ request.body[3] = 1
    /\ request.body[4] = 0
    /\ Contains(configuration.current_milestone, "started")
    /\ configuration.severities = <<"SEV1">>
    /\ status = StatusOK
    /\ events = <<>>

\* C25: a record whose severity is the flat string SEV1 yields the slug SEV1,
\* and under the severity allow-list {SEV1} its delivery emits as many events
\* as the same delivery with the severity nested as {slug: SEV1}.
C25_FlatSeverityExtracted ==
    ( /\ ReachedFilter
      /\ request.fault = "none"
      /\ request.body[4] = 3
      /\ configuration.severities = <<"SEV1">> ) =>
        LET config == decodeOnIncidentConfiguration(configuration)
            nested == jsonUnmarshal([request.body EXCEPT ![4] = 1])
        IN  /\ extractSeveritySlug(jsonUnmarshal(request.body)) = "SEV1"
            /\ Len(events) = Len(filterAndEmit(config, nested, "none").events)

\* C29: an authenticated delivery whose body is no JSON document is answered
\* 400 with a parse error and emits nothing.
C29_UnparsableBodyRejected ==
    ( /\ ReachedVerifier
      /\ RequestVerdict = "nil"
      /\ jsonUnmarshal(request.body).err # "nil" ) =>
        /\ status = StatusBadRequest
        /\ err = "error parsing request body"
        /\ events = <<>>

\* a correctly signed body that is no document was answered 400
C29_Witness ==
    /\ ReachedVerifier
    /\ secret # <<>>
    /\ RequestVerdict = "nil"
    /\ request.body = <<1, 1>>
    /\ status = StatusBadRequest
    /\ events = <<>>

\* C30: a delivery handled under a configuration that does not decode is
\* answered with a 4xx status and emits nothing.
C30_BadConfigurationIsClientError ==
    (request.handled /\ configuration.kind = "invalid") =>
        /\ status >= 400
        /\ status < 500
        /\ events = <<>>

\* the fields normalization flattens
SlugFields == {"severity", "priority", "current_milestone"}

\* a record with each of SlugFields that is a nested object with a slug
\* replaced by the slug, and everything else as it is
Flattened(raw) ==
    {<<p[1], IF p[1] \in SlugFields /\ p[2].type = "object" /\ Has(p[2].obj, "slug")
             THEN Str(Get(p[2].obj, "slug")) ELSE p[2]>> : p \in raw}

\* a finished direct call of buildIncidentPayload on a payload with a record
BuiltRecord ==
    /\ call.fn = "buildIncidentPayload"
    /\ call.done
    /\ ~call.payload.Data.Incident.nil

\* C26: in the record of a built payload, severity, priority and
\* current_milestone are each the slug where the delivery had a nested object
\* with a slug, and every field that is a flat string, an object without a
\* slug, absent, or another field is as in the delivery.
C26_NormalizedRecord ==
    BuiltRecord =>
        /\ call.result.incident.present
        /\ call.result.incident.map = Flattened(call.payload.Data.Incident.map)

\* C27: buildIncidentPayload leaves the payload it is given as it was: the
\* record has the same keys and the same values, nested objects included.
C27_InputNotMutated ==
    (call.fn = "buildIncidentPayload" /\ call.done) => call.after = call.payload

\* a record with a nested severity and a nested priority was built: the
\* result has the slugs, the input still has the objects
C27_Witness ==
    /\ BuiltRecord
    /\ Has(call.payload.Data.Incident.map, "severity")
    /\ Has(call.payload.Data.Incident.map, "priority")
    /\ Get(call.payload.Data.Incident.map, "severity") = Obj({<<"slug", "SEV1">>})
    /\ Get(call.payload.Data.Incident.map, "priority") = Obj({<<"slug", "P1">>})
    /\ Get(call.result.incident.map, "severity") = Str("SEV1")
    /\ Get(call.result.incident.map, "priority") = Str("P1")
    /\ Get(call.after.Data.Incident.map, "severity") = Obj({<<"slug", "SEV1">>})
    /\ Get(call.after.Data.Incident.map, "priority") = Obj({<<"slug", "P1">>})

\* C28: a delivery emits at most one event; its type and the event field of its
\* payload name the delivery's operation, CREATED or UPDATED; operation and
\* resource_type are the delivery's; incident is the normalized record, and is
\* left out when the delivery had no record.
C28_EventMatchesDelivery ==
    events # <<>> =>
        LET payload == jsonUnmarshal(request.body)
            event == events[1]
        IN  /\ Len(events) = 1
            /\ payload.Event.Operation \in {"CREATED", "UPDATED"}
            /\ payload.Event.Operation = "CREATED" =>
                   /\ event.type = "firehydrant.incident.created"
                   /\ event.payload.event = "incident.created"
            /\ payload.Event.Operation = "UPDATED" =>
                   /\ event.type = "firehydrant.incident.updated"
                   /\ event.payload.event = "incident.updated"
            /\ event.payload.operation = payload.Event.Operation
            /\ event.payload.resource_type = payload.Event.ResourceType
            /\ event.payload.incident.present = ~payload.Data.Incident.nil
            /\ ~payload.Data.Incident.nil =>
                   event.payload.incident.map = normalizeIncident(payload.Data.Incident.map)

\* an UPDATED delivery emitted firehydrant.incident.updated with the record's
\* severity flattened
C28_Witness ==
    /\ Len(events) = 1
    /\ request.body[2] = 2
    /\ events[1].type = "firehydrant.incident.updated"
    /\ events[1].payload.event = "incident.updated"
    /\ events[1].payload.operation = "UPDATED"
    /\ events[1].payload.incident.present
    /\ Has(events[1].payload.incident.map, "severity")
    /\ Get(events[1].payload.incident.map, "severity") = Str("SEV1")

\* the filter turns the delivery down: it is no incident CREATED or UPDATED, it
\* is a CREATED and "started" is not in the allow-list, an UPDATED with one
\* milestone behind it or with a current milestone that is not allowed, or the
\* severity allow-list is set and the record has no nested slug in it
FilterRejects ==
    /\ ReachedFilter
    /\ LET allowed == {configuration.current_milestone[i] :
                          i \in 1..Len(configuration.current_milestone)}
       IN  \/ request.body[1] # 1
           \/ request.body[2] \notin {1, 2}
           \/ request.body[2] = 1 /\ "started" \notin allowed
           \/ request.body[2] = 2 /\ request.body[6] = 2
           \/ request.body[2] = 2 /\ ~MilestoneAllowed
           \/ configuration.severities = <<"SEV1">> /\ request.body[4] # 1

\* C31: a delivery the filter turns down is answered 200 with no error and no
\* event, whatever the state of the event sink; a delivery the filter lets
\* through emits when the sink works; and a delivery that emitted is answered
\* 200 with no error.
C31_NoMatchIsNotAnError ==
    /\ FilterRejects => (status = StatusOK /\ err = "nil" /\ events = <<>>)
    /\ (ReachedFilter /\ ~FilterRejects /\ request.fault = "none") => Len(events) = 1
    /\ events # <<>> => (status = StatusOK /\ err = "nil")

\* an incident CREATED of severity SEV2 under the allow-lists {started} and
\* {SEV1}, with an event sink that fails, was answered 200 without an event
C31_Witness ==
    /\ FilterRejects
    /\ request.fault = "emit"
    /\ request.body[1] = 1
    /\ request.body[2] = 1
    /\ request.body[4] = 2
    /\ configuration.current_milestone = <<"started">>
    /\ configuration.severities = <<"SEV1">>
    /\ status = StatusOK
    /\ err = "nil"
    /\ events = <<>>

\* C35: HandleWebhook stops at the first step that fails, the steps being in
\* this order: decode the configuration (500), read the secret (500), verify
\* the signature (403), parse the body (400), filter and emit.  A delivery with
\* a bad signature is answered 403 even if its body does not parse, and
\* whatever is answered 400 or emitted has passed verification.
C35_StepsInOrder ==
    request.handled =>
        /\ configuration.kind = "invalid" =>
               (status = StatusInternalServerError /\ err = "failed to decode configuration")
        /\ (configuration.kind # "invalid" /\ request.fault = "getSecret") =>
               (status = StatusInternalServerError /\ err = "error getting secret")
        /\ (ReachedVerifier /\ RequestVerdict # "nil") =>
               (status = StatusForbidden /\ err = "invalid signature" /\ events = <<>>)
        /\ (status = StatusBadRequest \/ events # <<>>) =>
               (ReachedVerifier /\ RequestVerdict = "nil")
        /\ events # <<>> => jsonUnmarshal(request.body).err = "nil"

\* a delivery whose signature is wrong and whose body does not parse was
\* answered 403
C35_Witness ==
    /\ ReachedVerifier
    /\ secret # <<>>
    /\ request.signature # <<>>
    /\ RequestVerdict = "signature mismatch"
    /\ request.body = <<1, 1>>
    /\ status = StatusForbidden

C32_UndecodableIsAnError ==
    /\ (Compared /\ ~Decodable) => (call.err # "nil" /\ ~call.match)
    /\ (Merged /\ ~Decodable) =>
           (call.err # "nil" /\ call.value = NilConfig /\ ~call.changed)

\* Merge was given a requested configuration that is no map and returned an
\* error and no configuration
C32_Witness ==
    /\ Merged
    /\ call.a.kind = "map"
    /\ call.a.subscriptions # <<>>
    /\ call.b.kind = "invalid"
    /\ call.err # "nil"
    /\ call.value = NilConfig

\* C36: the list mergeSubscriptions returns is sorted ascending, has no entry
\* twice, and holds exactly the entries of current and of requested, whatever
\* the two lists, repeated entries included.
C36_MergedSortedAndDeduplicated ==
    (call.fn = "mergeSubscriptions" /\ call.done) =>
        LET merged == call.value.subscriptions
        IN  /\ \A i \in 1..Len(merged) - 1 : SortKey(merged[i]) <= SortKey(merged[i + 1])
            /\ \A i, j \in 1..Len(merged) : merged[i] = merged[j] => i = j
            /\ ScopeOf(merged) = Scope(call.a) \cup Scope(call.b)

\* C38: on scopes CompareConfig matches, Merge returns the scope that
\* mergeSubscriptions computes, as a set, and reports changed exactly when the
\* upstream sync would update, that is when subscriptionsEqual(current, merged)
\* is false.
C38_MergeAgreesWithSync ==
    (Merged /\ Decodable /\ compareConfig(call.a, call.b).match) =>
        LET merged == mergeSubscriptions(call.a.subscriptions, call.b.subscriptions)
        IN  /\ call.err = "nil"
            /\ Scope(call.value) = ScopeOf(merged)
            /\ call.changed <=> ~subscriptionsEqual(call.a.subscriptions, merged)

\* Merge expanded a non-empty scope to a wider one, as the sync would
C38_Witness ==
    /\ Merged
    /\ Decodable
    /\ call.a.subscriptions # <<>>
    /\ call.changed
    /\ Scope(call.value) =
           ScopeOf(mergeSubscriptions(call.a.subscriptions, call.b.subscriptions))
    /\ ~subscriptionsEqual(call.a.subscriptions,
                           mergeSubscriptions(call.a.subscriptions, call.b.subscriptions))

\* the webhooks of the provider that have the callback URL
Registrations == {i \in 1..Len(upstream) : upstream[i].url = CallbackURL}

\* C34: whatever Setups have run for the callback URL, with listings that
\* failed and with executions interleaved, the provider holds at most one
\* webhook with that URL.
C34_SingleRegistration == Cardinality(Registrations) <= 1

\* every write so far was made by an execution that listed after the write
\* before it: the syncs that wrote did so one after the other
Serial == \A k \in 1..Len(log) : log[k].seen = k - 1

\* executor p has returned without error from a Setup whose request an earlier
\* sync, finished before p listed, had applied
Reapplied(p) ==
    /\ setups[p].pc = "done"
    /\ setups[p].err = "nil"
    /\ \E i \in 1..setups[p].seen : log[i].requested = setups[p].requested

\* C37: after syncs that ran one after the other, the scope of the webhook
\* with the callback URL is the scope before the first of them together with
\* every request synced, in whatever order they came; and a Setup for a request
\* already applied issues no create and no update.
C37_SerialSyncsCommute ==
    (log # <<>> /\ Serial) =>
        LET place == findWebhookByURL(upstream, CallbackURL)
        IN  /\ place # 0
            /\ ScopeOf(upstream[place].subscriptions) =
                   ScopeOf(log[1].before)
                   \cup UNION {ScopeOf(log[k].requested) : k \in 1..Len(log)}
            /\ \A p \in Procs : Reapplied(p) => CallsAfterList(p) = <<>>

(***************************************************************************)
(* SpecCleanup: FireHydrantWebhookHandler.Cleanup and OnIncident.Cleanup.  *)
(* The metadata of a webhook record is what Setup returned for it: the id  *)
(* of the provider's webhook, 0 standing for the empty id.                 *)
(***************************************************************************)
\* mapstructure.Decode(ctx.Webhook.GetMetadata(), &metadata): nil metadata
\* decodes to the empty id, a value that is no map does not decode
decodeWebhookMetadata(raw) ==
    IF raw.kind = "invalid" THEN [err |-> "error decoding webhook metadata", WebhookID |-> 0]
    ELSE IF raw.kind = "nil" THEN [err |-> "nil", WebhookID |-> 0]
    ELSE [err |-> "nil", WebhookID |-> raw.webhookId]

\* faulty variant: the empty id is not tested for
cleanup_noguard(raw, fault) ==
    LET metadata == decodeWebhookMetadata(raw)
    IN  IF metadata.err # "nil" THEN [pc |-> "done", err |-> metadata.err]
        ELSE IF fault = "newClient" THEN [pc |-> "done", err |-> "error getting API key"]
        ELSE [pc |-> "delete", err |-> "nil"]

\* Cleanup up to its upstream call: decode the metadata, return nil on the
\* empty id, build the client
cleanup(raw, fault) ==
    LET metadata == decodeWebhookMetadata(raw)
    IN  IF metadata.err # "nil" THEN [pc |-> "done", err |-> metadata.err]
        ELSE IF metadata.WebhookID = 0 THEN [pc |-> "done", err |-> "nil"]
        ELSE IF fault = "newClient" THEN [pc |-> "done", err |-> "error getting API key"]
        ELSE [pc |-> "delete", err |-> "nil"]

\* client.DeleteWebhook(id) on the provider: the webhook with the id is gone
DeleteWebhook(webhooks, id) ==
    LET kept(webhook) == webhook.id # id
    IN  SelectSeq(webhooks, kept)

\* the metadata Cleanup is run with: none, a value that is no map, the empty
\* id, and ids of webhooks the provider has or no longer has
CleanupMetadata ==
    {[kind |-> "nil", webhookId |-> 0], [kind |-> "invalid", webhookId |-> 0]}
    \cup [kind : {"map"}, webhookId : 0..3]

\* what the provider holds when Cleanup runs
CleanupUpstreams ==
    InitialUpstreams
    \cup {<<Webhook(1, CallbackURL, <<1>>, <<"incidents">>),
            Webhook(2, CallbackURL, <<1>>, <<"change_events">>)>>}

InitCleanup ==
    /\ secret = <<>>
    /\ configuration = [kind |-> "nil", severities |-> <<>>, current_milestone |-> <<>>]
    /\ request = NoRequest
    /\ status = 0
    /\ err = "nil"
    /\ events = <<>>
    /\ upstream \in CleanupUpstreams
    /\ call \in [fn : {"Cleanup", "OnIncident.Cleanup"},
                 metadata : CleanupMetadata,
                 fault : {"none", "newClient"},
                 before : {upstream},
                 pc : {"start"},
                 calls : {<<>>},
                 err : {"nil"}]
    /\ setups = [p \in Procs |-> NoSetup]
    /\ log = <<>>
    /\ registry = <<>>

\* FireHydrantWebhookHandler.Cleanup up to client.DeleteWebhook
CleanupStart ==
    /\ call.fn = "Cleanup"
    /\ call.pc = "start"
    /\ LET r == cleanup(call.metadata, call.fault)
       IN  call' = [call EXCEPT !.pc = r.pc, !.err = r.err]
    /\ UNCHANGED <<secret, configuration, request, status, err, events>>
    /\ UNCHANGED regVars

\* client.DeleteWebhook(metadata.WebhookID) and the return of Cleanup; the
\* provider refuses to delete a webhook it does not have
CleanupDelete ==
    /\ call.fn = "Cleanup"
    /\ call.pc = "delete"
    /\ \E ok \in BOOLEAN :
         LET id == decodeWebhookMetadata(call.metadata).WebhookID
             called == [call EXCEPT !.pc = "done",
                                    !.calls = Append(@, [op |-> "delete", ok |-> ok, id |-> id])]
         IN  IF ok
             THEN /\ PlaceOf(id) # 0
                  /\ upstream' = DeleteWebhook(upstream, id)
                  /\ call' = called
             ELSE /\ call' = [called EXCEPT !.err = "error deleting webhook"]
                  /\ UNCHANGED upstream
    /\ UNCHANGED <<secret, configuration, request, status, err, events>>
    /\ UNCHANGED <<setups, log, registry>>

\* OnIncident.Cleanup: return nil
TriggerCleanup ==
    /\ call.fn = "OnIncident.Cleanup"
    /\ call.pc = "start"
    /\ call' = [call EXCEPT !.pc = "done"]
    /\ UNCHANGED <<secret, configuration, request, status, err, events>>
    /\ UNCHANGED regVars

NextCleanup == CleanupStart \/ CleanupDelete \/ TriggerCleanup

SpecCleanup == InitCleanup /\ [][NextCleanup]_vars

\* Cleanup of a webhook record has returned
CleanedUp == call.fn = "Cleanup" /\ call.pc = "done"

\* the id in the metadata Cleanup was run with, 0 if there is none
RecordedID == decodeWebhookMetadata(call.metadata).WebhookID

\* C39 as stated: Cleanup with a recorded id issues one delete for that id,
\* whose error it returns; with the empty id it issues no call and succeeds;
\* with undecodable metadata it returns an error and issues no call; and
\* OnIncident.Cleanup issues no delete.
C39_CleanupDeletesRecorded ==
    /\ CleanedUp =>
           IF call.metadata.kind = "invalid"
           THEN call.err # "nil" /\ call.calls = <<>> /\ upstream = call.before
           ELSE IF RecordedID = 0
           THEN call.err = "nil" /\ call.calls = <<>> /\ upstream = call.before
           ELSE /\ Len(call.calls) = 1
                /\ call.calls[1].op = "delete"
                /\ call.calls[1].id = RecordedID
                /\ call.calls[1].ok <=> call.err = "nil"
                /\ upstream = IF call.calls[1].ok
                              THEN DeleteWebhook(call.before, RecordedID)
                              ELSE call.before
    /\ (call.fn = "OnIncident.Cleanup" /\ call.pc = "done") =>
           call.err = "nil" /\ call.calls = <<>> /\ upstream = call.before

\* C39, amended: as stated when the client can be built; when NewClient fails
\* on a recorded id, Cleanup returns that error and issues no upstream call.
C39_CleanupDeletesRecordedIfClient ==
    /\ CleanedUp =>
           IF call.metadata.kind = "invalid"
           THEN call.err # "nil" /\ call.calls = <<>> /\ upstream = call.before
           ELSE IF RecordedID = 0
           THEN call.err = "nil" /\ call.calls = <<>> /\ upstream = call.before
           ELSE IF call.fault = "newClient"
           THEN call.err # "nil" /\ call.calls = <<>> /\ upstream = call.before
           ELSE /\ Len(call.calls) = 1
                /\ call.calls[1].op = "delete"
                /\ call.calls[1].id = RecordedID
                /\ call.calls[1].ok <=> call.err = "nil"
                /\ upstream = IF call.calls[1].ok
                              THEN DeleteWebhook(call.before, RecordedID)
                              ELSE call.before
    /\ (call.fn = "OnIncident.Cleanup" /\ call.pc = "done") =>
           call.err = "nil" /\ call.calls = <<>> /\ upstream = call.before

\* Cleanup deleted the second of two webhooks with the callback URL, the one
\* whose id was recorded, and left the first
C39_Witness ==
    /\ CleanedUp
    /\ RecordedID = 2
    /\ call.err = "nil"
    /\ call.calls = <<[op |-> "delete", ok |-> TRUE, id |-> 2]>>
    /\ Len(call.before) = 2
    /\ call.before[1].url = CallbackURL
    /\ upstream = <<call.before[1]>>

(***************************************************************************)
(* SpecSync: FireHydrant.Sync, run again and again on one integration.     *)
(* The integration, as Sync can change it, is a ready flag and the         *)
(* metadata; it is kept in the record of the execution, next to its value  *)
(* when the execution began.                                               *)
(***************************************************************************)
\* an integration Sync has never marked ready
Fresh == [ready |-> FALSE, metadata |-> [kind |-> "nil", Severities |-> <<>>]]

\* Metadata{Severities: severities}
Metadata(severities) == [kind |-> "set", Severities |-> severities]

\* mapstructure.Decode(ctx.Configuration, &config): nil and a map without
\* apiKey decode to the empty key, a value that is no map does not decode
decodeConfiguration(raw) ==
    IF raw.kind = "invalid" THEN [err |-> "failed to decode config", APIKey |-> <<>>]
    ELSE [err |-> "nil", APIKey |-> raw.apiKey]

\* faulty variant: the API key is not required
sync_nokey(raw, fault) ==
    LET config == decodeConfiguration(raw)
    IN  IF config.err # "nil" THEN [pc |-> "done", err |-> config.err]
        ELSE IF fault = "newClient" THEN [pc |-> "done", err |-> "error creating client"]
        ELSE [pc |-> "list", err |-> "nil"]

\* Sync up to its upstream request: decode the configuration, require the API
\* key, build the client
sync(raw, fault) ==
    LET config == decodeConfiguration(raw)
    IN  IF config.err # "nil" THEN [pc |-> "done", err |-> config.err]
        ELSE IF config.APIKey = <<>> THEN [pc |-> "done", err |-> "API key is required"]
        ELSE IF fault = "newClient" THEN [pc |-> "done", err |-> "error creating client"]
        ELSE [pc |-> "list", err |-> "nil"]

\* the configurations Sync is run with: none, one that is no map, one without
\* an API key, and one for each of two API keys
SyncConfigs ==
    {[kind |-> "nil", apiKey |-> <<>>], [kind |-> "invalid", apiKey |-> <<>>]}
    \cup [kind : {"map"}, apiKey : {<<>>, <<1>>, <<2>>}]

\* the severities the provider lists, by slug
SeverityLists ==
    {<<>>, <<"SEV1">>, <<"SEV2">>, <<"SEV1", "SEV2">>, <<"SEV2", "SEV1">>}

\* how client.ListSeverities() ends: with the list, with a failed request, or
\* with a response that is no JSON
Listings == {"ok", "request failed", "error parsing response"}

InitSync ==
    /\ secret = <<>>
    /\ configuration = [kind |-> "nil", severities |-> <<>>, current_milestone |-> <<>>]
    /\ request = NoRequest
    /\ status = 0
    /\ err = "nil"
    /\ events = <<>>
    /\ call = [fn |-> "Sync", pc |-> "idle",
               config |-> [kind |-> "map", apiKey |-> <<>>], fault |-> "none",
               integration |-> Fresh, before |-> Fresh,
               requests |-> 0, listing |-> "none", err |-> "nil"]
    /\ upstream = <<>>
    /\ setups = [p \in Procs |-> NoSetup]
    /\ log = <<>>
    /\ registry = <<>>

\* Sync up to client.ListSeverities()
SyncStart ==
    /\ call.fn = "Sync"
    /\ call.pc \in {"idle", "done"}
    /\ \E raw \in SyncConfigs, fault \in {"none", "newClient"} :
         LET r == sync(raw, fault)
         IN  call' = [call EXCEPT !.pc = r.pc, !.err = r.err,
                                  !.config = raw, !.fault = fault,
                                  !.before = call.integration,
                                  !.requests = 0, !.listing = "none"]
    /\ UNCHANGED <<secret, configuration, request, status, err, events>>
    /\ UNCHANGED regVars

\* client.ListSeverities() and the rest of Sync: SetMetadata and Ready when
\* the listing succeeded
SyncListSeverities ==
    /\ call.fn = "Sync"
    /\ call.pc = "list"
    /\ \E listing \in Listings, severities \in SeverityLists :
         LET requested == [call EXCEPT !.pc = "done", !.requests = @ + 1,
                                       !.listing = listing]
         IN  IF listing = "ok"
             THEN call' = [requested EXCEPT
                              !.integration = [ready |-> TRUE,
                                               metadata |-> Metadata(severities)]]
             ELSE /\ severities = <<>>
                  /\ call' = [requested EXCEPT !.err = "error listing severities"]
    /\ UNCHANGED <<secret, configuration, request, status, err, events>>
    /\ UNCHANGED regVars

NextSync == SyncStart \/ SyncListSeverities

SpecSync == InitSync /\ [][NextSync]_vars

\* Sync has returned
Synced == call.fn = "Sync" /\ call.pc = "done"

\* C40: Sync marks the integration ready and sets its metadata only when the
\* configuration decodes, the API key is not empty and the listing of
\* severities succeeds; a Sync that fails returns an error and leaves the
\* integration as it was, not ready and without metadata if it was so; with
\* an undecodable configuration or an empty API key no upstream request is
\* made.
C40_ReadyOnlyWhenValidated ==
    Synced =>
        LET config == decodeConfiguration(call.config)
            validated == /\ config.err = "nil"
                         /\ config.APIKey # <<>>
                         /\ call.listing = "ok"
        IN  /\ call.err = "nil" =>
                   /\ validated
                   /\ call.integration.ready
                   /\ call.integration.metadata.kind = "set"
            /\ ~validated =>
                   /\ call.err # "nil"
                   /\ call.integration = call.before
                   /\ call.before = Fresh =>
                          /\ ~call.integration.ready
                          /\ call.integration.metadata.kind = "nil"
            /\ (config.err # "nil" \/ config.APIKey = <<>>) => call.requests = 0

\* a first Sync with an API key listed two severities: the integration is
\* ready and has them as metadata, after one upstream request
C40_Witness ==
    /\ Synced
    /\ call.before = Fresh
    /\ call.config.apiKey # <<>>
    /\ call.err = "nil"
    /\ call.requests = 1
    /\ call.integration = [ready |-> TRUE, metadata |-> Metadata(<<"SEV1", "SEV2">>)]

====
